---- MODULE Spec2Model ----
(***************************************************************************)
(* Model of streamlit_json_generator.py: the eight bulk operations on      *)
(* productOfferingGroup / productOfferingCategory archives.                *)
(*                                                                         *)
(* Text is a sequence of code points, so that strip(), lower(), the        *)
(* regular expressions of _safe_name and Python's string order are         *)
(* computed and not assumed.  <<>> is the empty string.                    *)
(***************************************************************************)
EXTENDS Integers, Sequences, FiniteSets, TLC

VARIABLES
    zip,      \* the archive at hand: the next operation's zip_bytes
    op,       \* the operation that ran last ("init" before the first)
    args,     \* the inputs of that operation (archive, tables, scalars, set orders)
    result,   \* the SimpleResult it returned
    steps     \* how many operations ran so far

vars == <<zip, op, args, result, steps>>

-----------------------------------------------------------------------------
(* Generic helpers *)

RECURSIVE FoldLeft(_, _, _)
FoldLeft(Op(_, _), acc, s) ==
    IF s = <<>> THEN acc ELSE FoldLeft(Op, Op(acc, Head(s)), Tail(s))

Range(s) == {s[i] : i \in DOMAIN s}

\* s without the elements that fail Keep, order kept
Filter(Keep(_), s) ==
    FoldLeft(LAMBDA acc, e: IF Keep(e) THEN Append(acc, e) ELSE acc, <<>>, s)

\* the first occurrences of s, order kept (keys of a dict filled in order s)
Dedup(s) ==
    FoldLeft(LAMBDA acc, e: IF e \in Range(acc) THEN acc ELSE Append(acc, e), <<>>, s)

\* every enumeration without repetition of the finite set S
Orders(S) ==
    {q \in [1..Cardinality(S) -> S] : Range(q) = S}

\* f with key k set to v (d[k] = v of a dict)
Put(f, k, v) == [x \in DOMAIN f \cup {k} |-> IF x = k THEN v ELSE f[x]]

-----------------------------------------------------------------------------
(* Text *)

\* a cell or a JSON key that holds no value (NaN / None / key absent)
Missing == <<0>>

\* str.strip() and \s: the ASCII white space
IsSpace(c) == c \in {9, 10, 11, 12, 13, 32}

RECURSIVE lstrip(_)
lstrip(s) ==
    IF s # <<>> /\ IsSpace(Head(s)) THEN lstrip(Tail(s)) ELSE s

RECURSIVE rstrip(_)
rstrip(s) ==
    IF s # <<>> /\ IsSpace(s[Len(s)]) THEN rstrip(SubSeq(s, 1, Len(s) - 1)) ELSE s

strip(s) == rstrip(lstrip(s))

lower(s) == [i \in DOMAIN s |-> IF s[i] \in 65..90 THEN s[i] + 32 ELSE s[i]]

\* Python's order on str: code point by code point, a proper prefix first
RECURSIVE StrLess(_, _)
StrLess(a, b) ==
    IF b = <<>> THEN FALSE
    ELSE IF a = <<>> THEN TRUE
    ELSE IF a[1] # b[1] THEN a[1] < b[1]
    ELSE StrLess(Tail(a), Tail(b))

StrLeq(a, b) == a = b \/ StrLess(a, b)

\* the strings of the finite set S in ascending order
RECURSIVE SortedStrings(_)
SortedStrings(S) ==
    IF S = {} THEN <<>>
    ELSE LET m == CHOOSE x \in S : \A y \in S : StrLeq(x, y)
         IN  <<m>> \o SortedStrings(S \ {m})

_normalize_str(v) ==
    IF v = Missing THEN <<>>
    ELSE LET s == strip(v)
         IN  IF lower(s) = <<110, 97, 110>> THEN <<>> ELSE s

_normalize_id(v) ==
    LET s == _normalize_str(v)
    IN  IF s # <<>> THEN s ELSE <<>>

\* WHITESPACE_PATTERN.sub("_", s): every run of white space becomes one "_"
WhitespaceSub(s) ==
    FoldLeft(LAMBDA acc, i:
                IF ~IsSpace(s[i]) THEN Append(acc, s[i])
                ELSE IF i > 1 /\ IsSpace(s[i - 1]) THEN acc
                ELSE Append(acc, 95),
             <<>>, [i \in 1..Len(s) |-> i])

\* the characters SAFE_NAME_PATTERN keeps: 0-9 A-Z a-z _ - and U+0400..U+04FF
IsSafeChar(c) ==
    c \in (48..57) \cup (65..90) \cup (97..122) \cup {95, 45} \cup (1024..1279)

_safe_name(name) ==
    LET s == Filter(IsSafeChar, WhitespaceSub(strip(name)))
    IN  IF s # <<>> THEN s ELSE <<102, 105, 108, 101>>

-----------------------------------------------------------------------------
(* Archive entries, JSON documents *)

POG_DIR == "productOfferingGroup"
POC_DIR == "productOfferingCategory"

\* An entry name is <dir>/<stem>.<ext>; dir "" is the archive's root.
Name(dir, stem, ext) == [dir |-> dir, stem |-> stem, ext |-> ext]
NoPath == Name("", <<>>, "")

\* One item of productOfferingsInGroup.  id and name may be Missing.
Offering(id, expired, name, isBundle) ==
    [id |-> id, expiredForSales |-> expired, name |-> name, isBundle |-> isBundle]

\* A JSON value.  t = "obj": an object with the keys below (rest stands for
\* the object's other keys: localizedName, name, description, effective, ...);
\* "arr": a non-empty value that is no object; "falsy": {} [] null 0 "";
\* "bad": bytes json.loads rejects.
Json(t, id, purpose, pog, rest, category, categoryRef) ==
    [t |-> t, id |-> id, purpose |-> purpose, productOfferingsInGroup |-> pog,
     rest |-> rest, category |-> category, categoryRef |-> categoryRef]
Obj(id, purpose, pog, rest) == Json("obj", id, purpose, pog, rest, <<>>, <<>>)
NoJson(t) == Json(t, Missing, "", <<>>, <<>>, <<>>, <<>>)

\* Bytes: canon tells the canonical layout of _json_dumps_stable from any
\* other layout of the same value; two byte strings are equal iff both
\* fields are.
Bytes(canon, val) == [canon |-> canon, val |-> val]

_json_dumps_stable(obj) == Bytes(TRUE, obj)

\* json.loads(data.decode("utf-8")) of _load_json, and its issue
Loads(data) == data.val

\* An Issue.  message names the message's template; json_id, item_id and n
\* are what context holds (<<>> and 0 when it does not); row_number 0 and
\* file_path NoPath stand for None.
\* listed holds the ids a message spells out.
Issue(type, severity, message, path, jid, sid, row, n) ==
    [type |-> type, severity |-> severity, message |-> message, file_path |-> path,
     json_id |-> jid, item_id |-> sid, row_number |-> row, n |-> n, listed |-> <<>>]

_load_json_ok(data) == Loads(data).t # "bad"

_load_json_issue(path) ==
    Issue("INVALID_JSON", "error", "invalid json", path, <<>>, <<>>, 0, 0)

\* Archive bytes: kind "zip" is a readable archive with its entries in
\* order, "garbage" bytes zipfile rejects, "none" no archive (None).
Archive(kind, files) == [kind |-> kind, files |-> files]
File(name, data) == [name |-> name, data |-> data]
NoZip == Archive("none", <<>>)
BadZip == Archive("garbage", <<>>)

\* _read_zip: names = zf.namelist()
ZipNames(z) == [i \in DOMAIN z.files |-> z.files[i].name]

\* _read_zip: content = {n: zf.read(n) for n in names}; read(n) of a name
\* the archive holds twice gives the entry written last
ZipBlob(z) ==
    [n \in Range(ZipNames(z)) |->
        LET last == CHOOSE i \in DOMAIN z.files :
                        /\ z.files[i].name = n
                        /\ \A j \in DOMAIN z.files : z.files[j].name = n => j <= i
        IN  z.files[last].data]

\* the keys of content, in insertion order
BlobKeys(z) == Dedup(ZipNames(z))

_list_json_in_dir(z, dir_name) ==
    Filter(LAMBDA n: n.dir = dir_name /\ n.ext = "json", BlobKeys(z))

\* the archive of the rewritten documents alone
_build_new_zip_updated(original_names, original_bytes, updated_json_map) ==
    LET kept == Filter(LAMBDA n: n \in DOMAIN updated_json_map, original_names)
    IN  Archive("zip", [i \in DOMAIN kept |-> File(kept[i], updated_json_map[kept[i]])])

_build_new_zip(original_names, original_bytes, updated_json_map) ==
    Archive("zip",
        [i \in DOMAIN original_names |->
            LET name == original_names[i]
            IN  IF name \in DOMAIN updated_json_map
                THEN File(name, updated_json_map[name])
                ELSE File(name, original_bytes[name])])

-----------------------------------------------------------------------------
(* Builders *)

\* _make_offering without "if name": the name key is always set
_make_offering_named(offer_id, name) == Offering(offer_id, FALSE, name, FALSE)

_make_offering(offer_id, name) ==
    Offering(offer_id, FALSE, IF name # <<>> THEN name ELSE Missing, FALSE)

\* the order of the ids read as numbers: shorter digit strings first
NumLeq(a, b) == Len(a) < Len(b) \/ (Len(a) = Len(b) /\ StrLeq(a, b))

\* sorted(offerings, key=lambda x: int(x["id"])): the numeric order
SortedByIdNumeric(offerings) ==
    FoldLeft(LAMBDA acc, e:
                LET k == Cardinality({i \in DOMAIN acc : NumLeq(acc[i].id, e.id)})
                IN  SubSeq(acc, 1, k) \o <<e>> \o SubSeq(acc, k + 1, Len(acc)),
             <<>>, offerings)

\* sorted(offerings, key=lambda x: x["id"]): stable, by the raw id
SortedById(offerings) ==
    FoldLeft(LAMBDA acc, e:
                LET k == Cardinality({i \in DOMAIN acc : StrLeq(acc[i].id, e.id)})
                IN  SubSeq(acc, 1, k) \o <<e>> \o SubSeq(acc, k + 1, Len(acc)),
             <<>>, offerings)

\* x["id"] raises KeyError for an item without the key
SortRaises(offerings) == \E i \in DOMAIN offerings : offerings[i].id = Missing

-----------------------------------------------------------------------------
(* Tables and results *)

\* An input table: fmt is the file's format ("xlsx", "csv", "ssv" for
\* semicolon-separated text without commas, "bad" for bytes no parser accepts),
\* cols tells whether the file's header, split by the file's own separator,
\* names every expected column, rows the records.
Table(fmt, cols, rows) == [fmt |-> fmt, cols |-> cols, rows |-> rows]

\* _read_table returns: read_excel parses, or raises and read_csv parses the
\* text with commas; a semicolon-separated text parses with commas into one
\* column, which is not an expected one.
_read_table_ok(t) == t.fmt \in {"xlsx", "csv"} /\ t.cols

\* the issues of a _read_table that returns
_read_table_issues(t) ==
    IF t.fmt = "xlsx" THEN <<>>
    ELSE <<Issue("INVALID_JSON", "info", "not excel, trying csv", NoPath, <<>>, <<>>, 0, 0)>>

\* the local list "issues" of a _read_table that raises: the caller's
\* "df, read_issues = _read_table(...)" never binds it
_read_table_raise_issues(t) ==
    (IF t.fmt = "xlsx" THEN <<>>
     ELSE <<Issue("INVALID_JSON", "info", "not excel, trying csv", NoPath, <<>>, <<>>, 0, 0)>>)
    \o (IF t.fmt = "bad"
        THEN <<Issue("INVALID_JSON", "error", "cannot read file", NoPath, <<>>, <<>>, 0, 0)>>
        ELSE <<Issue("MISSING_FIELD", "error", "missing columns", NoPath, <<>>, <<>>, 0, 0)>>)

NoDetails == [set |-> FALSE, skipped_existing |-> <<>>, skipped_expire_not_found |-> <<>>]

\* SimpleResult(False, "", None, {})
NewResult ==
    [ok |-> FALSE, msg |-> "", zip_data |-> NoZip, counts |-> <<>>,
     issues |-> <<>>, details |-> NoDetails]

add_issue(r, issue) == [r EXCEPT !.issues = Append(@, issue)]

SetCount(r, k, v) == [r EXCEPT !.counts = Put(@, k, v)]

\* except Exception as e: of every operation
\* the except clause without its add_issue: the message only
CriticalMessageOnly(r) == [r EXCEPT !.msg = "error"]

Critical(r) ==
    [add_issue(r, Issue("INVALID_JSON", "error", "critical error", NoPath, <<>>, <<>>, 0, 0))
        EXCEPT !.msg = "error"]

\* df[c] = df[c].apply(_normalize_str) for the columns cols of the rows
NormalizeRows(rows, cols) ==
    [i \in DOMAIN rows |->
        [c \in DOMAIN rows[i] |-> IF c \in Range(cols) THEN _normalize_str(rows[i][c])
                                  ELSE rows[i][c]]]

\* the warning loop with elif between the columns: a row with several
\* blank columns is reported for the first of them only
EmptyIdIssuesFirstOnly(df, cols, message) ==
    FoldLeft(LAMBDA acc, i:
                LET blank == {k \in DOMAIN cols : df[i][cols[k]] = <<>>}
                IN  IF blank = {} THEN acc
                    ELSE LET k == CHOOSE k \in blank : \A j \in blank : k <= j
                         IN  Append(acc, Issue("EMPTY_ID", "warning", message[cols[k]], NoPath,
                                               <<>>, <<>>, i + 1, 0)),
             <<>>, [i \in DOMAIN df |-> i])

\* for idx, row in df.iterrows(): one EMPTY_ID warning for each column of
\* cols that is blank in the row, row_number = idx + 2; message[c] is the
\* message about column c
EmptyIdIssues(df, cols, message) ==
    FoldLeft(LAMBDA acc, i:
                acc \o FoldLeft(LAMBDA a, c:
                                   IF df[i][c] = <<>>
                                   THEN Append(a, Issue("EMPTY_ID", "warning", message[c], NoPath,
                                                        <<>>, <<>>, i + 1, 0))
                                   ELSE a,
                                <<>>, cols),
             <<>>, [i \in DOMAIN df |-> i])

\* the messages "Пустой <column>"
Plain(cols) == [c \in Range(cols) |-> c]

\* df[(df[c1] != "") & (df[c2] != "") ...]
ValidRows(df, cols) ==
    Filter(LAMBDA row: \A c \in Range(cols) : row[c] # <<>>, df)

\* the keys of df.groupby(col): distinct, ascending
GroupKeys(df, col) == SortedStrings({df[i][col] : i \in DOMAIN df})

\* the rows of the group key, in table order
Group(df, col, key) == Filter(LAMBDA row: row[col] = key, df)

-----------------------------------------------------------------------------
(* 2. add_services_to_existing_pogs *)

\* the column labels "Имя услуги" and "ID услуги" as text
ColServiceName == <<1048, 1084, 1103, 32, 1091, 1089, 1083, 1091, 1075, 1080>>
ColServiceId == <<73, 68, 32, 1091, 1089, 1083, 1091, 1075, 1080>>

\* service_map = df.groupby("Addons ID")[[name, id]].apply(records).to_dict():
\* the groups in ascending key order.  With no row left, groupby.apply
\* gives an empty frame of the two selected columns, whose to_dict() has
\* the column labels for keys.
ServiceMap(df) ==
    IF df = <<>>
    THEN <<[key |-> ColServiceName, recs |-> <<>>], [key |-> ColServiceId, recs |-> <<>>]>>
    ELSE LET keys == GroupKeys(df, "addons_id")
         IN  [k \in DOMAIN keys |->
                [key |-> keys[k], recs |-> Group(df, "addons_id", keys[k])]]

MapKeys(m) == [k \in DOMAIN m |-> m[k].key]
MapGet(m, key) == (CHOOSE k \in DOMAIN m : m[k].key = key)

\* the ids of a document's items: {_normalize_id(o.get("id", "")) for o in offerings}
ExistingIds(offerings) == {_normalize_id(offerings[i].id) : i \in DOMAIN offerings}

SkipRecord(json_id, item_id, name, reason) ==
    [json_id |-> json_id, item_id |-> item_id, name |-> name, reason |-> reason]

\* the row loop without its membership test: every valid row appends
AddServicesRowUnchecked(d, rec, path, json_id) ==
    LET sid == _normalize_id(rec.service_id)
        sname == _normalize_str(rec.service_name)
    IN  IF sid = <<>> THEN d
        ELSE [d EXCEPT
                !.offerings = Append(@, _make_offering(sid, sname)),
                !.existing = @ \cup {sid},
                !.modified = TRUE]

\* the body of "for rec in service_map[json_id]"; d carries offerings,
\* existing, modified and the issues and skipped_rows appended so far
AddServicesRow(d, rec, path, json_id) ==
    LET sid == _normalize_id(rec.service_id)
        sname == _normalize_str(rec.service_name)
    IN  IF sid = <<>> THEN d
        ELSE IF sid \in d.existing
        THEN [d EXCEPT
                !.issues = Append(@, Issue("ALREADY_EXISTS", "info", "service already exists",
                                           path, json_id, sid, 0, 0)),
                !.skipped = Append(@, SkipRecord(json_id, sid, sname,
                                                 "already_exists_in_group"))]
        ELSE [d EXCEPT
                !.offerings = Append(@, _make_offering(sid, sname)),
                !.existing = @ \cup {sid},
                !.modified = TRUE]

\* the save that builds every item anew from its id, name and flag
SaveIfModifiedRebuilt(st, d, path, data) ==
    IF ~d.modified THEN [st EXCEPT !.issues = d.issues, !.skipped = d.skipped]
    ELSE IF SortRaises(d.offerings)
    THEN [st EXCEPT !.issues = d.issues, !.skipped = d.skipped, !.exc = TRUE]
    ELSE [st EXCEPT
            !.issues = d.issues,
            !.skipped = d.skipped,
            !.updated = Put(@, path, _json_dumps_stable(
                [data EXCEPT !.productOfferingsInGroup =
                    SortedById([i \in DOMAIN d.offerings |->
                        Offering(d.offerings[i].id, FALSE, d.offerings[i].name,
                                 d.offerings[i].expiredForSales)])]))]

\* if modified: data[...] = sorted(offerings, ...); updated[path] = dumps(data)
SaveIfModified(st, d, path, data) ==
    IF ~d.modified THEN [st EXCEPT !.issues = d.issues, !.skipped = d.skipped]
    ELSE IF SortRaises(d.offerings)
    THEN [st EXCEPT !.issues = d.issues, !.skipped = d.skipped, !.exc = TRUE]
    ELSE [st EXCEPT
            !.issues = d.issues,
            !.skipped = d.skipped,
            !.updated = Put(@, path, _json_dumps_stable(
                [data EXCEPT !.productOfferingsInGroup = SortedById(d.offerings)]))]

\* the purpose check of the operations on service bundles / on transitions
PurposeOk(data, expected) == data.purpose = expected

InvalidTargetType(path, json_id) ==
    Issue("INVALID_TARGET_TYPE", "error", "wrong purpose", path, json_id, <<>>, 0, 0)

\* the body of "for path in json_files"; st carries updated, found_ids,
\* skipped_rows, the issues, and exc once an exception left the loop
AddServicesDoc(st, path, blob, service_map) ==
    IF st.exc THEN st
    ELSE IF ~_load_json_ok(blob[path]) THEN [st EXCEPT !.issues = Append(@, _load_json_issue(path))]
    ELSE LET data == Loads(blob[path])
             json_id == _normalize_id(data.id)
         IN  IF data.t = "falsy" THEN st
             ELSE IF data.t # "obj" THEN [st EXCEPT !.exc = TRUE]
             ELSE IF json_id = <<>>
             THEN [st EXCEPT !.issues = Append(@, Issue("EMPTY_ID", "error", "json without id",
                                                        path, <<>>, <<>>, 0, 0))]
             ELSE IF json_id \notin Range(MapKeys(service_map)) THEN st
             ELSE LET st1 == [st EXCEPT !.found = @ \cup {json_id}]
                  IN  IF ~PurposeOk(data, "addOn")
                      THEN [st1 EXCEPT !.issues = Append(@, InvalidTargetType(path, json_id))]
                      ELSE LET offerings == data.productOfferingsInGroup
                               d0 == [offerings |-> offerings,
                                      existing |-> ExistingIds(offerings),
                                      modified |-> FALSE,
                                      issues |-> st1.issues,
                                      skipped |-> st1.skipped]
                               d == FoldLeft(LAMBDA a, rec: AddServicesRow(a, rec, path, json_id),
                                             d0, service_map[MapGet(service_map, json_id)].recs)
                           IN  SaveIfModified(st1, d, path, data)

NewLoop(issues) ==
    [updated |-> <<>>, found |-> {}, skipped |-> <<>>, issues |-> issues, exc |-> FALSE,
     expired_count |-> 0, added_count |-> 0]

\* for want_id in <keys>: if want_id not in found_ids: NOT_FOUND_JSON_ID
NotFoundJsonIds(keys, found) ==
    FoldLeft(LAMBDA acc, want_id:
                IF want_id \in found THEN acc
                ELSE Append(acc, Issue("NOT_FOUND_JSON_ID", "error", "json file not found",
                                       NoPath, want_id, <<>>, 0, 0)),
             <<>>, keys)

CountType(issues, type) == Cardinality({i \in DOMAIN issues : issues[i].type = type})

\* if not updated: ok, "no changes", return; else build the archive
Finish(r, z, updated) ==
    IF DOMAIN updated = {}
    THEN [r EXCEPT !.ok = TRUE, !.msg = "no changes"]
    ELSE [r EXCEPT !.ok = TRUE, !.msg = "done",
                   !.zip_data = _build_new_zip(ZipNames(z), ZipBlob(z), updated)]

\* the operation whose except clause returns what the loop had rewritten
add_services_partial(z, t) ==
    IF z.kind # "zip" THEN Critical(NewResult)
    ELSE LET json_files == _list_json_in_dir(z, POG_DIR)
             blob == ZipBlob(z)
             cols == <<"addons_id", "service_name", "service_id">>
             ids == <<"addons_id", "service_id">>
         IN  IF json_files = <<>> THEN [NewResult EXCEPT !.msg = "no json in zip"]
             ELSE LET r1 == SetCount(NewResult, "json_files_in_zip", Len(json_files))
                  IN  IF ~_read_table_ok(t) THEN Critical(r1)
                      ELSE LET all == NormalizeRows(t.rows, cols)
                               df == ValidRows(all, ids)
                               r2 == [r1 EXCEPT !.issues = @ \o _read_table_issues(t)
                                                             \o EmptyIdIssues(all, ids, Plain(ids))]
                               r3 == SetCount(SetCount(r2, "total_rows", Len(all)),
                                              "valid_rows", Len(df))
                               service_map == ServiceMap(df)
                               st == FoldLeft(LAMBDA a, path:
                                                 AddServicesDoc(a, path, blob, service_map),
                                              NewLoop(r3.issues), json_files)
                           IN  IF st.exc THEN Finish(Critical([r3 EXCEPT !.issues = st.issues]), z, st.updated)
                               ELSE LET r4 == [r3 EXCEPT !.issues = st.issues \o
                                                 NotFoundJsonIds(MapKeys(service_map), st.found)]
                                        r5 == SetCount(SetCount(SetCount(r4,
                                                 "files_processed", Cardinality(DOMAIN st.updated)),
                                                 "added", CountType(r4.issues, "ALREADY_EXISTS")),
                                                 "skipped_existing", Len(st.skipped))
                                        r6 == [r5 EXCEPT !.details =
                                                 [NoDetails EXCEPT !.set = TRUE,
                                                     !.skipped_existing = st.skipped]]
                                    IN  Finish(r6, z, st.updated)

add_services_to_existing_pogs(z, t) ==
    IF z.kind # "zip" THEN Critical(NewResult)
    ELSE LET json_files == _list_json_in_dir(z, POG_DIR)
             blob == ZipBlob(z)
             cols == <<"addons_id", "service_name", "service_id">>
             ids == <<"addons_id", "service_id">>
         IN  IF json_files = <<>> THEN [NewResult EXCEPT !.msg = "no json in zip"]
             ELSE LET r1 == SetCount(NewResult, "json_files_in_zip", Len(json_files))
                  IN  IF ~_read_table_ok(t) THEN Critical(r1)
                      ELSE LET all == NormalizeRows(t.rows, cols)
                               df == ValidRows(all, ids)
                               r2 == [r1 EXCEPT !.issues = @ \o _read_table_issues(t)
                                                             \o EmptyIdIssues(all, ids, Plain(ids))]
                               r3 == SetCount(SetCount(r2, "total_rows", Len(all)),
                                              "valid_rows", Len(df))
                               service_map == ServiceMap(df)
                               st == FoldLeft(LAMBDA a, path:
                                                 AddServicesDoc(a, path, blob, service_map),
                                              NewLoop(r3.issues), json_files)
                           IN  IF st.exc THEN Critical([r3 EXCEPT !.issues = st.issues])
                               ELSE LET r4 == [r3 EXCEPT !.issues = st.issues \o
                                                 NotFoundJsonIds(MapKeys(service_map), st.found)]
                                        r5 == SetCount(SetCount(SetCount(r4,
                                                 "files_processed", Cardinality(DOMAIN st.updated)),
                                                 "added", CountType(r4.issues, "ALREADY_EXISTS")),
                                                 "skipped_existing", Len(st.skipped))
                                        r6 == [r5 EXCEPT !.details =
                                                 [NoDetails EXCEPT !.set = TRUE,
                                                     !.skipped_existing = st.skipped]]
                                    IN  Finish(r6, z, st.updated)

-----------------------------------------------------------------------------
(* 3. expire_services_in_pogs and expire_offer_in_transitions *)

\* expire_map = df.groupby("json_id")[col].apply(list).to_dict(): the
\* groups in ascending key order; no row gives {}
ExpireMap(df, col) ==
    LET keys == GroupKeys(df, "json_id")
    IN  [k \in DOMAIN keys |->
            LET g == Group(df, "json_id", keys[k])
            IN  [key |-> keys[k], recs |-> [i \in DOMAIN g |-> g[i][col]]]]

\* index_by_id = {_normalize_id(o.get("id", "")): o for o in offerings}:
\* the position index_by_id.get(sid) refers to, 0 for None
IndexById(offerings, sid) ==
    LET hits == {i \in DOMAIN offerings : _normalize_id(offerings[i].id) = sid}
    IN  IF hits = {} THEN 0 ELSE CHOOSE i \in hits : \A j \in hits : j <= i

\* the row loop without the test of the flag: every item found is set
\* and the document marked modified
ExpireRowAlways(d, raw, path, json_id, not_found_type) ==
    LET sid == _normalize_id(raw)
        i == IndexById(d.offerings, sid)
    IN  IF i = 0
        THEN [d EXCEPT !.issues = Append(@, Issue(not_found_type, "error", "item not found",
                                                  path, json_id, sid, 0, 0))]
        ELSE [d EXCEPT !.offerings[i].expiredForSales = TRUE, !.modified = TRUE]

\* the row loop without its else branch: an expired item is passed over
ExpireRowQuiet(d, raw, path, json_id, not_found_type) ==
    LET sid == _normalize_id(raw)
        i == IndexById(d.offerings, sid)
    IN  IF i = 0
        THEN [d EXCEPT !.issues = Append(@, Issue(not_found_type, "error", "item not found",
                                                  path, json_id, sid, 0, 0))]
        ELSE IF ~d.offerings[i].expiredForSales
        THEN [d EXCEPT !.offerings[i].expiredForSales = TRUE, !.modified = TRUE]
        ELSE d

\* the body of "for sid in expire_map[json_id]"
ExpireRow(d, raw, path, json_id, not_found_type) ==
    LET sid == _normalize_id(raw)
        i == IndexById(d.offerings, sid)
    IN  IF i = 0
        THEN [d EXCEPT !.issues = Append(@, Issue(not_found_type, "error", "item not found",
                                                  path, json_id, sid, 0, 0))]
        ELSE IF ~d.offerings[i].expiredForSales
        THEN [d EXCEPT !.offerings[i].expiredForSales = TRUE, !.modified = TRUE]
        ELSE [d EXCEPT !.issues = Append(@, Issue("ALREADY_EXPIRED", "info", "already expired",
                                                  path, json_id, sid, 0, 0))]

\* the body of "for path in json_files" of both expire operations
ExpireDoc(st, path, blob, expire_map, purpose, not_found_type) ==
    IF st.exc THEN st
    ELSE IF ~_load_json_ok(blob[path]) THEN [st EXCEPT !.issues = Append(@, _load_json_issue(path))]
    ELSE LET data == Loads(blob[path])
             json_id == _normalize_id(data.id)
         IN  IF data.t = "falsy" THEN st
             ELSE IF data.t # "obj" THEN [st EXCEPT !.exc = TRUE]
             ELSE IF json_id = <<>> \/ json_id \notin Range(MapKeys(expire_map)) THEN st
             ELSE LET st1 == [st EXCEPT !.found = @ \cup {json_id}]
                  IN  IF ~PurposeOk(data, purpose)
                      THEN [st1 EXCEPT !.issues = Append(@, InvalidTargetType(path, json_id))]
                      ELSE LET offerings == data.productOfferingsInGroup
                               d0 == [offerings |-> offerings,
                                      existing |-> {},
                                      modified |-> FALSE,
                                      issues |-> st1.issues,
                                      skipped |-> st1.skipped]
                               d == FoldLeft(LAMBDA a, raw:
                                                ExpireRow(a, raw, path, json_id, not_found_type),
                                             d0, expire_map[MapGet(expire_map, json_id)].recs)
                           IN  SaveIfModified(st1, d, path, data)

\* both expire operations: col is the item column, purpose the expected
\* purpose, not_found_type the issue type of an item that is not there
Expire(z, t, col, purpose, not_found_type) ==
    IF z.kind # "zip" THEN Critical(NewResult)
    ELSE LET json_files == _list_json_in_dir(z, POG_DIR)
             blob == ZipBlob(z)
             cols == <<"json_id", col>>
         IN  IF json_files = <<>> THEN [NewResult EXCEPT !.msg = "no json in zip"]
             ELSE LET r1 == SetCount(NewResult, "json_files_in_zip", Len(json_files))
                  IN  IF ~_read_table_ok(t) THEN Critical(r1)
                      ELSE LET all == NormalizeRows(t.rows, cols)
                               df == ValidRows(all, cols)
                               r2 == [r1 EXCEPT !.issues = @ \o _read_table_issues(t)
                                                             \o EmptyIdIssues(all, cols, Plain(cols))]
                               r3 == SetCount(SetCount(r2, "total_rows", Len(all)),
                                              "valid_rows", Len(df))
                               expire_map == ExpireMap(df, col)
                               st == FoldLeft(LAMBDA a, path:
                                                 ExpireDoc(a, path, blob, expire_map,
                                                           purpose, not_found_type),
                                              NewLoop(r3.issues), json_files)
                           IN  IF st.exc THEN Critical([r3 EXCEPT !.issues = st.issues])
                               ELSE LET r4 == [r3 EXCEPT !.issues = st.issues \o
                                                 NotFoundJsonIds(MapKeys(expire_map), st.found)]
                                        r5 == SetCount(SetCount(r4,
                                                 "files_processed", Cardinality(DOMAIN st.updated)),
                                                 "expired", CountType(r4.issues, "ALREADY_EXPIRED"))
                                    IN  Finish(r5, z, st.updated)

expire_services_in_pogs(z, t) ==
    Expire(z, t, "service_id", "addOn", "NOT_FOUND_SERVICE_ID")

expire_offer_in_transitions(z, t) ==
    Expire(z, t, "offer_id", "replaceOffer", "NOT_FOUND_OFFER_ID")

-----------------------------------------------------------------------------
(* 2'. add_offer_to_transitions *)

\* the body of "for path in json_files"
AddOfferDoc(st, path, blob, target_ids, want) ==
    IF st.exc THEN st
    ELSE IF ~_load_json_ok(blob[path]) THEN [st EXCEPT !.issues = Append(@, _load_json_issue(path))]
    ELSE LET data == Loads(blob[path])
             jid == _normalize_id(data.id)
         IN  IF data.t = "falsy" THEN st
             ELSE IF data.t # "obj" THEN [st EXCEPT !.exc = TRUE]
             ELSE IF jid = <<>> \/ jid \notin target_ids THEN st
             ELSE LET st1 == [st EXCEPT !.found = @ \cup {jid}]
                      offerings == data.productOfferingsInGroup
                  IN  IF ~PurposeOk(data, "replaceOffer")
                      THEN [st1 EXCEPT !.issues = Append(@, InvalidTargetType(path, jid))]
                      ELSE IF want \in ExistingIds(offerings)
                      THEN [st1 EXCEPT
                              !.issues = Append(@, Issue("ALREADY_EXISTS", "info",
                                                   "offer already exists", path, jid, want, 0, 0)),
                              !.skipped = Append(@, SkipRecord(jid, want, <<>>,
                                                               "already_exists_in_group"))]
                      ELSE SaveIfModified(st1,
                               [offerings |-> Append(offerings, _make_offering(want, <<>>)),
                                modified |-> TRUE,
                                issues |-> st1.issues,
                                skipped |-> st1.skipped],
                               path, data)

\* order is the order in which the set target_ids is iterated
add_offer_to_transitions(z, t, offer_id, order) ==
    IF z.kind # "zip" THEN Critical(NewResult)
    ELSE LET json_files == _list_json_in_dir(z, POG_DIR)
             blob == ZipBlob(z)
             cols == <<"json_id">>
         IN  IF json_files = <<>> THEN [NewResult EXCEPT !.msg = "no json in zip"]
             ELSE LET r1 == SetCount(NewResult, "json_files_in_zip", Len(json_files))
                  IN  IF ~_read_table_ok(t) THEN Critical(r1)
                      ELSE LET all == NormalizeRows(t.rows, cols)
                               target_ids == Range(order)
                               r2 == [r1 EXCEPT !.issues = @ \o _read_table_issues(t)
                                                             \o EmptyIdIssues(all, cols, Plain(cols))]
                               r3 == SetCount(SetCount(r2, "total_rows", Len(all)),
                                              "valid_rows", Cardinality(target_ids))
                               want == _normalize_id(offer_id)
                               st == FoldLeft(LAMBDA a, path:
                                                 AddOfferDoc(a, path, blob, target_ids, want),
                                              NewLoop(r3.issues), json_files)
                           IN  IF st.exc THEN Critical([r3 EXCEPT !.issues = st.issues])
                               ELSE LET r4 == [r3 EXCEPT !.issues = st.issues \o
                                                 NotFoundJsonIds(order, st.found)]
                                        r5 == SetCount(SetCount(SetCount(r4,
                                                 "files_processed", Cardinality(DOMAIN st.updated)),
                                                 "added", Cardinality(DOMAIN st.updated)),
                                                 "skipped_existing", Len(st.skipped))
                                        r6 == [r5 EXCEPT !.details =
                                                 [NoDetails EXCEPT !.set = TRUE,
                                                     !.skipped_existing = st.skipped]]
                                    IN  Finish(r6, z, st.updated)

\* target_ids = {x for x in df["json_id"].tolist() if x}
TargetIds(t) ==
    LET all == NormalizeRows(t.rows, <<"json_id">>)
    IN  {all[i].json_id : i \in DOMAIN all} \ {<<>>}

-----------------------------------------------------------------------------
(* 4. expire_and_add_services *)

\* the body of "for offering in offerings" (the expire step), at position i
CombinedExpire(d, i, services_to_expire, path, json_id) ==
    LET sid == _normalize_id(d.offerings[i].id)
    IN  IF sid \notin services_to_expire THEN d
        ELSE IF ~d.offerings[i].expiredForSales
        THEN [d EXCEPT !.offerings[i].expiredForSales = TRUE,
                       !.expired_count = @ + 1,
                       !.modified = TRUE]
        ELSE [d EXCEPT !.issues = Append(@, Issue("ALREADY_EXPIRED", "info", "already expired",
                                                  path, json_id, sid, 0, 0))]

\* the body of "for service in services_to_add" (the add step)
CombinedAdd(d, service, path, json_id) ==
    LET sid == service.service_id
        sname == service.service_name
    IN  IF sid \in d.existing
        THEN [d EXCEPT
                !.skipped = Append(@, SkipRecord(json_id, sid, sname, "already_exists")),
                !.issues = Append(@, Issue("ALREADY_EXISTS", "info", "service already exists",
                                           path, json_id, sid, 0, 0))]
        ELSE [d EXCEPT
                !.offerings = Append(@, _make_offering(sid, sname)),
                !.existing = @ \cup {sid},
                !.added_count = @ + 1,
                !.modified = TRUE]

\* the first pass with its two steps swapped: add, then expire over the
\* entry list the add step left
CombinedDocAddFirst(st, path, blob, services_to_expire, services_to_add) ==
    IF st.exc THEN st
    ELSE IF ~_load_json_ok(blob[path]) THEN [st EXCEPT !.issues = Append(@, _load_json_issue(path))]
    ELSE LET data == Loads(blob[path])
             json_id == _normalize_id(data.id)
         IN  IF data.t = "falsy" THEN st
             ELSE IF data.t # "obj" THEN [st EXCEPT !.exc = TRUE]
             ELSE IF json_id = <<>>
             THEN [st EXCEPT !.issues = Append(@, Issue("EMPTY_ID", "error", "json without id",
                                                        path, <<>>, <<>>, 0, 0))]
             ELSE IF ~PurposeOk(data, "addOn")
             THEN [st EXCEPT !.issues = Append(@, InvalidTargetType(path, json_id))]
             ELSE LET offerings == data.productOfferingsInGroup
                      d0 == [offerings |-> offerings,
                             existing |-> ExistingIds(offerings),
                             modified |-> FALSE,
                             issues |-> st.issues,
                             skipped |-> st.skipped,
                             expired_count |-> st.expired_count,
                             added_count |-> st.added_count]
                      d1 == FoldLeft(LAMBDA a, service:
                                        CombinedAdd(a, service, path, json_id),
                                     d0, services_to_add)
                      d2 == FoldLeft(LAMBDA a, i:
                                        CombinedExpire(a, i, services_to_expire, path, json_id),
                                     d1, [i \in DOMAIN d1.offerings |-> i])
                  IN  SaveIfModified([st EXCEPT !.expired_count = d2.expired_count,
                                                !.added_count = d2.added_count],
                                     d2, path, data)

\* the body of "for path in json_files" of the first pass
CombinedDoc(st, path, blob, services_to_expire, services_to_add) ==
    IF st.exc THEN st
    ELSE IF ~_load_json_ok(blob[path]) THEN [st EXCEPT !.issues = Append(@, _load_json_issue(path))]
    ELSE LET data == Loads(blob[path])
             json_id == _normalize_id(data.id)
         IN  IF data.t = "falsy" THEN st
             ELSE IF data.t # "obj" THEN [st EXCEPT !.exc = TRUE]
             ELSE IF json_id = <<>>
             THEN [st EXCEPT !.issues = Append(@, Issue("EMPTY_ID", "error", "json without id",
                                                        path, <<>>, <<>>, 0, 0))]
             ELSE IF ~PurposeOk(data, "addOn")
             THEN [st EXCEPT !.issues = Append(@, InvalidTargetType(path, json_id))]
             ELSE LET offerings == data.productOfferingsInGroup
                      d0 == [offerings |-> offerings,
                             existing |-> ExistingIds(offerings),
                             modified |-> FALSE,
                             issues |-> st.issues,
                             skipped |-> st.skipped,
                             expired_count |-> st.expired_count,
                             added_count |-> st.added_count]
                      d1 == FoldLeft(LAMBDA a, i:
                                        CombinedExpire(a, i, services_to_expire, path, json_id),
                                     d0, [i \in DOMAIN offerings |-> i])
                      d2 == FoldLeft(LAMBDA a, service:
                                        CombinedAdd(a, service, path, json_id),
                                     d1, services_to_add)
                  IN  SaveIfModified([st EXCEPT !.expired_count = d2.expired_count,
                                                !.added_count = d2.added_count],
                                     d2, path, data)

\* the second pass: the ids of services_to_expire that some document of
\* the archive, as it was read, holds
FoundExpired(json_files, blob, services_to_expire) ==
    UNION {IF Loads(blob[json_files[k]]).t = "obj"
           THEN ExistingIds(Loads(blob[json_files[k]]).productOfferingsInGroup)
                    \cap services_to_expire
           ELSE {} : k \in DOMAIN json_files}

\* the rows' ids: {_normalize_id(row["ID услуги"]) for _, row in df.iterrows()}
ServiceIds(df) == {df[i].service_id : i \in DOMAIN df}

\* the issue about ids both tables hold; order is the order of list(overlap)
OverlapIssue(order) ==
    [Issue("DUPLICATE_IN_SOURCE", "warning", "services in both files", NoPath,
           <<>>, <<>>, 0, Len(order))
        EXCEPT !.listed = SubSeq(order, 1, IF Len(order) < 5 THEN Len(order) ELSE 5)]

\* for sid in not_found_expire: the detail records and the issues
NotFoundExpire(order) ==
    [k \in DOMAIN order |->
        Issue("NOT_FOUND_SERVICE_ID", "info", "not found in any json", NoPath,
              <<>>, order[k], 0, 0)]

\* overlap_order and not_found_order are the orders in which the sets
\* overlap and not_found_expire are iterated
expire_and_add_services(z, expire_t, add_t, overlap_order, not_found_order) ==
    IF z.kind # "zip" THEN Critical(NewResult)
    ELSE LET json_files == _list_json_in_dir(z, POG_DIR)
             blob == ZipBlob(z)
             cols == <<"service_id", "service_name">>
             ids == <<"service_id">>
         IN  IF json_files = <<>> THEN [NewResult EXCEPT !.msg = "no json in zip"]
             ELSE LET r1 == SetCount(NewResult, "json_files_in_zip", Len(json_files))
                  IN  IF ~_read_table_ok(expire_t) THEN Critical(r1)
                      ELSE LET e_all == NormalizeRows(expire_t.rows, cols)
                               df_expire == ValidRows(e_all, ids)
                               r2 == [r1 EXCEPT !.issues = @ \o _read_table_issues(expire_t)
                                         \o EmptyIdIssues(e_all, ids,
                                                [service_id |-> "service_id for expire"])]
                               r3 == SetCount(SetCount(r2, "expire_total_rows", Len(e_all)),
                                              "expire_valid_rows", Len(df_expire))
                               services_to_expire == ServiceIds(df_expire)
                           IN  IF ~_read_table_ok(add_t) THEN Critical(r3)
                               ELSE LET a_all == NormalizeRows(add_t.rows, cols)
                                        df_add == ValidRows(a_all, ids)
                                        r4 == [r3 EXCEPT !.issues = @ \o _read_table_issues(add_t)
                                                  \o EmptyIdIssues(a_all, ids,
                                                        [service_id |-> "service_id for add"])
                                                  \o (IF overlap_order = <<>> THEN <<>>
                                                      ELSE <<OverlapIssue(overlap_order)>>)]
                                        r5 == SetCount(SetCount(r4, "add_total_rows", Len(a_all)),
                                                       "add_valid_rows", Len(df_add))
                                        st == FoldLeft(LAMBDA a, path:
                                                          CombinedDoc(a, path, blob,
                                                              services_to_expire, df_add),
                                                       NewLoop(r5.issues), json_files)
                                    IN  IF st.exc THEN Critical([r5 EXCEPT !.issues = st.issues])
                                        ELSE LET r6 == [r5 EXCEPT !.issues = st.issues \o
                                                           NotFoundExpire(not_found_order)]
                                                 r7 == SetCount(SetCount(SetCount(SetCount(SetCount(r6,
                                                          "files_processed", Cardinality(DOMAIN st.updated)),
                                                          "services_expired", st.expired_count),
                                                          "services_added", st.added_count),
                                                          "skipped_expire_not_found", Len(not_found_order)),
                                                          "skipped_add_existing", Len(st.skipped))
                                                 r8 == [r7 EXCEPT !.details =
                                                          [set |-> TRUE,
                                                           skipped_existing |-> st.skipped,
                                                           skipped_expire_not_found |->
                                                               [k \in DOMAIN not_found_order |->
                                                                   SkipRecord(<<>>, not_found_order[k], <<>>,
                                                                              "not_found_in_any_json")]]]
                                             IN  Finish(r8, z, st.updated)

\* the set overlap = services_to_expire & services_to_add_ids of two tables
Overlap(expire_t, add_t) ==
    LET cols == <<"service_id", "service_name">>
    IN  (ServiceIds(ValidRows(NormalizeRows(expire_t.rows, cols), <<"service_id">>))
         \cap ServiceIds(ValidRows(NormalizeRows(add_t.rows, cols), <<"service_id">>)))

\* the set not_found_expire = services_to_expire - found_expired
NotFoundSet(z, expire_t) ==
    LET cols == <<"service_id", "service_name">>
        services_to_expire ==
            ServiceIds(ValidRows(NormalizeRows(expire_t.rows, cols), <<"service_id">>))
    IN  IF z.kind # "zip" THEN {}
        ELSE services_to_expire \ FoundExpired(_list_json_in_dir(z, POG_DIR), ZipBlob(z),
                                               services_to_expire)

-----------------------------------------------------------------------------
(* 1. generate_addon_from_excel, create_replace_offer_from_excel, categories *)

\* rest of a bundle: the value of localizedName (and description), and name
_build_pog_addon(json_name, json_id, offerings) ==
    Obj(json_id, "addOn", SortedById(offerings), <<json_name, _safe_name(json_name)>>)

_build_pog_replace(json_name, json_id, offerings) ==
    Obj(json_id, "replaceOffer", SortedById(offerings), <<json_name, _safe_name(json_name)>>)

_build_category(offer_id, category_ids) ==
    LET unique_sorted ==
            SortedStrings({_normalize_id(category_ids[i]) : i \in DOMAIN category_ids} \ {<<>>})
    IN  Json("cat", offer_id, "", <<>>, <<>>, unique_sorted, unique_sorted)

\* the order of the keys of df.groupby([a, b]): by a, then by b
PairLeq(x, y) == StrLess(x[1], y[1]) \/ (x[1] = y[1] /\ StrLeq(x[2], y[2]))

RECURSIVE SortedPairs(_)
SortedPairs(S) ==
    IF S = {} THEN <<>>
    ELSE LET m == CHOOSE x \in S : \A y \in S : PairLeq(x, y)
         IN  <<m>> \o SortedPairs(S \ {m})

\* the group loop without drop_duplicates
KeepDuplicates(g) == g

\* g.drop_duplicates(subset=["ID услуги"]): the first row of each id
DropDuplicates(g) ==
    FoldLeft(LAMBDA acc, row:
                IF \E k \in DOMAIN acc : acc[k].service_id = row.service_id THEN acc
                ELSE Append(acc, row),
             <<>>, g)

\* the body of "for (json_name, json_id), g in groups"; w carries the
\* files written, the issues and the two counters
AddonGroup(w, key, df) ==
    LET json_name == key[1]
        json_id == key[2]
        g0 == Filter(LAMBDA row: row.addons_name = json_name /\ row.addons_id = json_id, df)
        g == DropDuplicates(g0)
        duplicates_count == Len(g0) - Len(g)
        rows == Filter(LAMBDA row: _normalize_id(row.service_id) # <<>>, g)
        offerings == [k \in DOMAIN rows |->
                        _make_offering(_normalize_id(rows[k].service_id),
                                       _normalize_str(rows[k].service_name))]
        w1 == IF duplicates_count > 0
              THEN [w EXCEPT !.issues = Append(@, Issue("DUPLICATE_IN_SOURCE", "info",
                                   "duplicates removed", NoPath, json_id, <<>>, 0,
                                   duplicates_count))]
              ELSE w
    IN  IF offerings = <<>> THEN w1
        ELSE [w1 EXCEPT
                !.files = Append(@, File(Name(POG_DIR, _safe_name(json_id), "json"),
                              _json_dumps_stable(_build_pog_addon(_normalize_str(json_name),
                                  _normalize_id(json_id), offerings)))),
                !.created_jsons = @ + 1,
                !.total = @ + Len(offerings)]

generate_addon_from_excel(t) ==
    IF ~_read_table_ok(t) THEN Critical(NewResult)
    ELSE LET cols == <<"addons_name", "addons_id", "service_name", "service_id">>
             ids == <<"addons_id", "service_id">>
             all == NormalizeRows(t.rows, cols)
             df == ValidRows(all, ids)
             r1 == [NewResult EXCEPT !.issues = _read_table_issues(t)
                                                 \o EmptyIdIssues(all, ids, Plain(ids))]
         IN  IF df = <<>> THEN [r1 EXCEPT !.msg = "no valid rows"]
             ELSE LET r2 == SetCount(SetCount(SetCount(r1, "total_rows", Len(all)),
                                "valid_rows", Len(df)), "skipped_rows", Len(all) - Len(df))
                      groups == SortedPairs({<<df[i].addons_name, df[i].addons_id>> :
                                                i \in DOMAIN df})
                      w == FoldLeft(LAMBDA a, key: AddonGroup(a, key, df),
                                    [files |-> <<>>, issues |-> r2.issues,
                                     created_jsons |-> 0, total |-> 0], groups)
                      r3 == [r2 EXCEPT !.issues = w.issues]
                  IN  IF w.created_jsons = 0 THEN [r3 EXCEPT !.msg = "nothing built"]
                      ELSE [SetCount(SetCount(r3, "created_jsons", w.created_jsons),
                                     "services_total", w.total)
                               EXCEPT !.ok = TRUE, !.msg = "done",
                                      !.zip_data = Archive("zip", w.files)]

create_replace_offer_from_excel(t, json_name, json_id) ==
    IF ~_read_table_ok(t) THEN Critical(NewResult)
    ELSE LET cols == <<"offer_id">>
             all == NormalizeRows(t.rows, cols)
             df == ValidRows(all, cols)
             r1 == [NewResult EXCEPT !.issues = _read_table_issues(t)
                                                 \o EmptyIdIssues(all, cols, Plain(cols))]
             r2 == SetCount(SetCount(r1, "total_rows", Len(all)), "valid_rows", Len(df))
         IN  IF df = <<>> THEN [r2 EXCEPT !.msg = "no valid rows"]
             ELSE LET rows == Filter(LAMBDA row: _normalize_id(row.offer_id) # <<>>, df)
                      offers == [k \in DOMAIN rows |->
                                    _make_offering(_normalize_id(rows[k].offer_id), <<>>)]
                      pog == _build_pog_replace(_normalize_str(json_name),
                                                _normalize_id(json_id), offers)
                  IN  [SetCount(SetCount(r2, "created_jsons", 1), "offers_total", Len(offers))
                          EXCEPT !.ok = TRUE, !.msg = "done",
                                 !.zip_data = Archive("zip",
                                     <<File(Name(POG_DIR, _safe_name(json_id), "json"),
                                            _json_dumps_stable(pog))>>)]

\* the body of "for offer_id, cats in groups.items()"
CategoryGroup(w, offer_id, df) ==
    LET g == Group(df, "offer_id", offer_id)
        cats == [k \in DOMAIN g |-> _normalize_id(g[k].category_id)]
        cat_json == _build_category(_normalize_id(offer_id), cats)
    IN  [w EXCEPT
            !.files = Append(@, File(Name(POC_DIR, _safe_name(offer_id), "json"),
                                     _json_dumps_stable(cat_json))),
            !.created_jsons = @ + 1,
            !.total = @ + Len(cat_json.category)]

generate_categories_from_excel(t) ==
    IF ~_read_table_ok(t) THEN Critical(NewResult)
    ELSE LET cols == <<"offer_id", "category_id">>
             all == NormalizeRows(t.rows, cols)
             df == ValidRows(all, cols)
             r1 == [NewResult EXCEPT !.issues = _read_table_issues(t)
                                                 \o EmptyIdIssues(all, cols, Plain(cols))]
             r2 == SetCount(SetCount(r1, "total_rows", Len(all)), "valid_rows", Len(df))
         IN  IF df = <<>> THEN [r2 EXCEPT !.msg = "no valid rows"]
             ELSE LET w == FoldLeft(LAMBDA a, offer_id: CategoryGroup(a, offer_id, df),
                                    [files |-> <<>>, issues |-> r2.issues,
                                     created_jsons |-> 0, total |-> 0],
                                    GroupKeys(df, "offer_id"))
                  IN  [SetCount(SetCount(r2, "created_jsons", w.created_jsons),
                                "categories_total", w.total)
                          EXCEPT !.ok = TRUE, !.msg = "done",
                                 !.zip_data = Archive("zip", w.files)]

-----------------------------------------------------------------------------
(* Inputs *)

\* how many operations one behaviour runs, one after the other
MaxOps == 2
\* how many rows a table holds at most
MaxRows == 2
\* how many entries an initial archive holds at most
MaxFiles == 2

\* every sequence over S of at most n elements
RECURSIVE SeqsUpTo(_, _)
SeqsUpTo(S, n) ==
    IF n = 0 THEN {<<>>}
    ELSE LET shorter == SeqsUpTo(S, n - 1)
         IN  shorter \cup {Append(q, x) : q \in {r \in shorter : Len(r) = n - 1}, x \in S}

G1 == <<71, 49>>
G2 == <<71, 50>>
G9 == <<71, 57>>
Id9 == <<57>>
Id10 == <<49, 48>>
Id5 == <<53>>
SomeName == <<110>>
Rest1 == <<<<114>>, <<114>>>>

\* The entries initial archives are made of: bundles of both purposes, one
\* with its items out of order, one whose id carries white space, a file
\* outside the directory, and the defective documents.
FilePool ==
    { File(Name(POG_DIR, G1, "json"),
           Bytes(FALSE, Obj(G1, "addOn",
               <<Offering(Id9, FALSE, SomeName, FALSE), Offering(Id10, TRUE, Missing, TRUE)>>,
               Rest1))),
      File(Name(POG_DIR, G2, "json"),
           Bytes(TRUE, Obj(<<32>> \o G2, "replaceOffer",
               <<Offering(Id9, FALSE, Missing, FALSE)>>, Rest1))),
      File(Name("", <<114, 101, 97, 100, 109, 101>>, "txt"), Bytes(FALSE, NoJson("bad"))),
      File(Name(POG_DIR, <<120>>, "json"), Bytes(FALSE, NoJson("bad"))),
      File(Name(POG_DIR, <<97>>, "json"), Bytes(FALSE, NoJson("arr"))),
      File(Name(POG_DIR, <<101>>, "json"), Bytes(TRUE, NoJson("falsy"))),
      File(Name(POG_DIR, <<107>>, "json"),
           Bytes(FALSE, Obj(G2, "addOn",
               <<Offering(Missing, FALSE, Missing, FALSE)>>, Rest1))) }

\* the initial archives: entries of the pool under pairwise distinct names
Archives ==
    {BadZip} \cup
    {Archive("zip", q) : q \in {r \in SeqsUpTo(FilePool, MaxFiles) :
                                  \A i, j \in DOMAIN r : i # j => r[i] # r[j]}}

Nan == <<78, 97, 110>>
NameA == <<65>>
NameB == <<66>>

\* the tables of an operation: every spreadsheet of at most MaxRows rows of
\* the pool, the one-row tables read from comma-separated text, and the
\* three tables that do not load
Tables(pool) ==
    {Table("xlsx", TRUE, rows) : rows \in SeqsUpTo(pool, MaxRows)}
    \cup {Table("csv", TRUE, <<x>>) : x \in pool}
    \cup {Table("xlsx", FALSE, <<>>), Table("ssv", TRUE, <<>>), Table("bad", FALSE, <<>>)}

AddRow(gid, sname, sid) == [addons_id |-> gid, service_name |-> sname, service_id |-> sid]

AddRowPool ==
    { AddRow(G1, SomeName, Id5), AddRow(G1 \o <<32>>, Missing, Id9),
      AddRow(G2, <<>>, Id10), AddRow(G9, SomeName, Id5),
      AddRow(Missing, SomeName, Nan) }

ExpireRow2(jid, sid) == [json_id |-> jid, service_id |-> sid]

ExpireRowPool ==
    { ExpireRow2(G1, Id9), ExpireRow2(G1, <<32>> \o Id10), ExpireRow2(G1, Id5),
      ExpireRow2(G2, Id9), ExpireRow2(G9, Id9), ExpireRow2(Missing, Nan) }

OfferRow(jid, oid) == [json_id |-> jid, offer_id |-> oid]

OfferRowPool ==
    { OfferRow(G2, Id9), OfferRow(G2, Id5), OfferRow(G1, Id9),
      OfferRow(G9, Id9), OfferRow(<<32>>, Missing) }

TargetRowPool == { [json_id |-> G2], [json_id |-> G1], [json_id |-> G9], [json_id |-> Missing] }

OfferIds == { Id5, Id9 \o <<32>> }

ServiceRow(sid, sname) == [service_id |-> sid, service_name |-> sname]

ExpirePool == { ServiceRow(Id9, SomeName), ServiceRow(Id5, <<>>), ServiceRow(Nan, SomeName) }

AddPool == { ServiceRow(Id5, SomeName), ServiceRow(Id9, <<>>), ServiceRow(Missing, SomeName) }

\* the tables of the combined operation: the spreadsheets, and one table
\* that does not load
FewTables(pool) ==
    {Table("xlsx", TRUE, rows) : rows \in SeqsUpTo(pool, MaxRows)}
    \cup {Table("ssv", TRUE, <<>>)}

AddonRow(gname, gid, sname, sid) ==
    [addons_name |-> gname, addons_id |-> gid, service_name |-> sname, service_id |-> sid]

AddonRowPool ==
    { AddonRow(NameA, G1, SomeName, Id9), AddonRow(NameA, G1, <<>>, Id10),
      AddonRow(NameB, G1, SomeName, Id5), AddonRow(NameA, Missing, SomeName, Nan) }

ReplaceRowPool == { [offer_id |-> Id9], [offer_id |-> Id10], [offer_id |-> Missing] }

CategoryRow(oid, cid) == [offer_id |-> oid, category_id |-> cid]

CategoryRowPool ==
    { CategoryRow(G1, Id9), CategoryRow(G1, Id10), CategoryRow(G2, Id9),
      CategoryRow(G1, Missing), CategoryRow(G1 \o <<33>>, Id9) }

-----------------------------------------------------------------------------
(* The state machine *)

NoTable == Table("bad", FALSE, <<>>)

\* the inputs of an operation; the fields an operation does not take keep
\* the values below
NoArgs ==
    [zip |-> NoZip, table |-> NoTable, add_table |-> NoTable,
     json_name |-> <<>>, json_id |-> <<>>, offer_id |-> <<>>,
     order |-> <<>>, not_found_order |-> <<>>]

Init ==
    /\ zip \in Archives
    /\ op = "init"
    /\ args = NoArgs
    /\ result = NewResult
    /\ steps = 0

\* an operation is called on the archive at hand when none is pending
Idle == op = "init" /\ steps < MaxOps

Ran(name, a, r) ==
    /\ op' = name
    /\ args' = a
    /\ result' = r
    /\ steps' = steps + 1
    /\ UNCHANGED zip

\* The user takes the archive the operation attached, if any, as the
\* archive of the next operation.
Feed ==
    /\ op # "init"
    /\ zip' = IF result.zip_data.kind = "zip" THEN result.zip_data ELSE zip
    /\ op' = "init"
    /\ args' = NoArgs
    /\ result' = NewResult
    /\ UNCHANGED steps

GenerateAddon ==
    /\ Idle
    /\ \E t \in Tables(AddonRowPool) :
        Ran("generate_addon_from_excel", [NoArgs EXCEPT !.table = t],
            generate_addon_from_excel(t))

AddServices ==
    /\ Idle
    /\ \E t \in Tables(AddRowPool) :
        Ran("add_services_to_existing_pogs", [NoArgs EXCEPT !.zip = zip, !.table = t],
            add_services_to_existing_pogs(zip, t))

ExpireServices ==
    /\ Idle
    /\ \E t \in Tables(ExpireRowPool) :
        Ran("expire_services_in_pogs", [NoArgs EXCEPT !.zip = zip, !.table = t],
            expire_services_in_pogs(zip, t))

ExpireAndAdd ==
    /\ Idle
    /\ \E te \in FewTables(ExpirePool), ta \in FewTables(AddPool) :
        \E o1 \in Orders(Overlap(te, ta)), o2 \in Orders(NotFoundSet(zip, te)) :
            Ran("expire_and_add_services",
                [NoArgs EXCEPT !.zip = zip, !.table = te, !.add_table = ta,
                               !.order = o1, !.not_found_order = o2],
                expire_and_add_services(zip, te, ta, o1, o2))

CreateReplaceOffer ==
    /\ Idle
    /\ \E t \in Tables(ReplaceRowPool), json_id \in {G2, <<71, 47, 50>>} :
        Ran("create_replace_offer_from_excel",
            [NoArgs EXCEPT !.table = t, !.json_name = NameA, !.json_id = json_id],
            create_replace_offer_from_excel(t, NameA, json_id))

AddOfferToTransitions ==
    /\ Idle
    /\ \E t \in Tables(TargetRowPool), offer_id \in OfferIds :
        \E o \in Orders(TargetIds(t)) :
            Ran("add_offer_to_transitions",
                [NoArgs EXCEPT !.zip = zip, !.table = t, !.offer_id = offer_id, !.order = o],
                add_offer_to_transitions(zip, t, offer_id, o))

ExpireOfferInTransitions ==
    /\ Idle
    /\ \E t \in Tables(OfferRowPool) :
        Ran("expire_offer_in_transitions", [NoArgs EXCEPT !.zip = zip, !.table = t],
            expire_offer_in_transitions(zip, t))

GenerateCategories ==
    /\ Idle
    /\ \E t \in Tables(CategoryRowPool) :
        Ran("generate_categories_from_excel", [NoArgs EXCEPT !.table = t],
            generate_categories_from_excel(t))

Next ==
    \/ GenerateAddon
    \/ AddServices
    \/ ExpireServices
    \/ ExpireAndAdd
    \/ CreateReplaceOffer
    \/ AddOfferToTransitions
    \/ ExpireOfferInTransitions
    \/ GenerateCategories
    \/ Feed

Spec == Init /\ [][Next]_vars

-----------------------------------------------------------------------------
(* Vocabulary of the properties *)

EditOps ==
    {"add_services_to_existing_pogs", "expire_services_in_pogs", "expire_and_add_services",
     "add_offer_to_transitions", "expire_offer_in_transitions"}

CreateOps ==
    {"generate_addon_from_excel", "create_replace_offer_from_excel",
     "generate_categories_from_excel"}

Attached == result.zip_data.kind = "zip"

InFiles == args.zip.files
OutFiles == result.zip_data.files

\* b is a document the operations may have made of the document a: the
\* same object but for its entry list, in which every entry of a is still
\* there, its expiredForSales flag aside
EditOf(a, b) ==
    /\ a.t = "obj" /\ b.t = "obj"
    /\ b.id = a.id /\ b.purpose = a.purpose /\ b.rest = a.rest
    /\ \A i \in DOMAIN a.productOfferingsInGroup :
          \E j \in DOMAIN b.productOfferingsInGroup :
              [b.productOfferingsInGroup[j] EXCEPT !.expiredForSales = FALSE]
                  = [a.productOfferingsInGroup[i] EXCEPT !.expiredForSales = FALSE]

\* entry i of the output is entry i of the input after an edit of its document
Rewritten(i) ==
    /\ InFiles[i].name.dir = POG_DIR /\ InFiles[i].name.ext = "json"
    /\ OutFiles[i].data.canon
    /\ EditOf(Loads(InFiles[i].data), Loads(OutFiles[i].data))
    /\ Loads(OutFiles[i].data) # Loads(InFiles[i].data)

-----------------------------------------------------------------------------
(* Vocabulary of the properties, continued *)

AddOp == "add_services_to_existing_pogs"
ExpireOp == "expire_services_in_pogs"
CombinedOp == "expire_and_add_services"
AddOfferOp == "add_offer_to_transitions"
ExpireOfferOp == "expire_offer_in_transitions"
TargetedOps == {AddOp, ExpireOp, AddOfferOp, ExpireOfferOp}

\* the archive and the table(s) of the call were read
ArchiveLoaded == args.zip.kind = "zip"
TablesLoaded ==
    /\ _read_table_ok(args.table)
    /\ op = CombinedOp => _read_table_ok(args.add_table)

\* the entries of the input archive the operation looks at, and what the
\* operation reads under a name
JsonFilesIn == _list_json_in_dir(args.zip, POG_DIR)
BlobIn == ZipBlob(args.zip)
BlobOut == ZipBlob(result.zip_data)

\* the columns that must not be blank in a row of the operation's table
RequiredIds(o) ==
    CASE o = "generate_addon_from_excel" -> <<"addons_id", "service_id">>
      [] o = AddOp -> <<"addons_id", "service_id">>
      [] o = ExpireOp -> <<"json_id", "service_id">>
      [] o = CombinedOp -> <<"service_id">>
      [] o = "create_replace_offer_from_excel" -> <<"offer_id">>
      [] o = AddOfferOp -> <<"json_id">>
      [] o = ExpireOfferOp -> <<"json_id", "offer_id">>
      [] OTHER -> <<"offer_id", "category_id">>

\* the rows of a table with every cell normalized, and the valid ones
Normal(t) == [i \in DOMAIN t.rows |-> [c \in DOMAIN t.rows[i] |-> _normalize_str(t.rows[i][c])]]
ValidOf(t, o) == ValidRows(Normal(t), RequiredIds(o))

\* the column of a targeted operation that names the document
DocColumn(o) == IF o = AddOp THEN "addons_id" ELSE "json_id"

\* the document ids the valid rows of a targeted operation name
TargetedIds == {ValidOf(args.table, op)[k][DocColumn(op)] : k \in DOMAIN ValidOf(args.table, op)}

ExpectedPurpose(o) == IF o \in {AddOfferOp, ExpireOfferOp} THEN "replaceOffer" ELSE "addOn"

\* the id a parseable document carries, <<>> when it carries none
CarriedId(data) == IF Loads(data).t = "obj" THEN _normalize_id(Loads(data).id) ELSE <<>>

IssuesThat(P(_)) == {k \in DOMAIN result.issues : P(result.issues[k])}


DistinctIds(offerings) ==
    \A i, j \in DOMAIN offerings : offerings[i].id = offerings[j].id => i = j

IsSortedById(offerings) ==
    \A i, j \in DOMAIN offerings : i < j => StrLeq(offerings[i].id, offerings[j].id)

HasCount(k, v) == k \in DOMAIN result.counts /\ result.counts[k] = v

-----------------------------------------------------------------------------
(* Properties *)

\* C1: an archive-editing operation that returns an archive returns the
\* input's entry names in the input's order, and every entry is either the
\* input's bytes or the input's document after the operation's edit.
C1_ArchiveFrame ==
    (op \in EditOps /\ Attached) =>
        /\ ZipNames(result.zip_data) = ZipNames(args.zip)
        /\ \A i \in DOMAIN InFiles :
              OutFiles[i].data = InFiles[i].data \/ Rewritten(i)

\* The rows of the add table whose entry the run put into a document.
AddedByRun(row) ==
    \E n \in DOMAIN BlobOut :
        /\ CarriedId(BlobOut[n]) = row.addons_id
        /\ row.service_id \in ExistingIds(Loads(BlobOut[n]).productOfferingsInGroup)
        /\ row.service_id \notin ExistingIds(Loads(BlobIn[n]).productOfferingsInGroup)

\* C2: add entries run again with the same table on the archive the first
\* run returned rewrites no document (files_processed = 0, no archive) and
\* records an AlreadyExists info issue for every row whose entry the first
\* run added.
C2_AddIdempotent ==
    (op = AddOp /\ Attached) =>
        LET again == add_services_to_existing_pogs(result.zip_data, args.table)
            rows == ValidOf(args.table, AddOp)
        IN  /\ "files_processed" \in DOMAIN again.counts
            /\ again.counts.files_processed = 0
            /\ again.zip_data = NoZip
            /\ \A k \in DOMAIN rows :
                  AddedByRun(rows[k]) =>
                      \E x \in DOMAIN again.issues :
                          /\ again.issues[x].type = "ALREADY_EXISTS"
                          /\ again.issues[x].severity = "info"
                          /\ again.issues[x].json_id = rows[k].addons_id
                          /\ again.issues[x].item_id = rows[k].service_id

\* the case of C2: a first run that added the entries of two rows
C2_Witness ==
    /\ op = AddOp /\ Attached
    /\ Cardinality({k \in DOMAIN ValidOf(args.table, AddOp) :
                       AddedByRun(ValidOf(args.table, AddOp)[k])}) = 2

\* the entries of the output that the operation built or rewrote: every
\* entry of a fresh archive, and in an edited archive the entries whose bytes
\* are not bytes the input held under that name
Written ==
    {i \in DOMAIN OutFiles :
        \/ op \in CreateOps
        \/ \A j \in DOMAIN InFiles :
              InFiles[j].name = OutFiles[i].name => InFiles[j].data # OutFiles[i].data}

\* C3: in every document an operation creates or rewrites,
\* productOfferingsInGroup is in ascending order of the raw id strings
\* compared character by character ("10" before "5" before "9"), whatever
\* the order of the table rows and of the entries of the input document.
C3_EntriesSorted ==
    Attached =>
        \A i \in Written :
            IsSortedById(Loads(OutFiles[i].data).productOfferingsInGroup)

\* the case of C3: a rewritten document that holds "10", "5" and "9" and
\* whose input held "9" before "10"
C3_Witness ==
    /\ op \in EditOps /\ Attached
    /\ \E i \in Written :
          /\ {Id10, Id5, Id9} \subseteq
                 ExistingIds(Loads(OutFiles[i].data).productOfferingsInGroup)
          /\ ~IsSortedById(Loads(BlobIn[OutFiles[i].name]).productOfferingsInGroup)

\* C4: a document created by create-service-bundles or
\* create-transition-bundle has pairwise distinct entry ids for any table,
\* duplicate rows included, and a document rewritten by an add or combined
\* operation has pairwise distinct entry ids whenever the document read had.
C4_UniqueEntryIds ==
    Attached =>
        /\ op \in {"generate_addon_from_excel", "create_replace_offer_from_excel"} =>
              \A i \in DOMAIN OutFiles :
                  DistinctIds(Loads(OutFiles[i].data).productOfferingsInGroup)
        /\ op \in {AddOp, AddOfferOp, CombinedOp} =>
              \A i \in Written :
                  DistinctIds(Loads(BlobIn[OutFiles[i].name]).productOfferingsInGroup)
                      => DistinctIds(Loads(OutFiles[i].data).productOfferingsInGroup)

\* the entries the operation reads whose document it targets although the
\* document's purpose is not the one it edits: in a targeted operation the
\* document's id is named by a valid row, the combined operation goes for
\* every document that has an id
WrongPurposeTargets ==
    {k \in DOMAIN JsonFilesIn :
        LET data == BlobIn[JsonFilesIn[k]]
        IN  /\ Loads(data).t = "obj"
            /\ CarriedId(data) # <<>>
            /\ op = CombinedOp \/ CarriedId(data) \in TargetedIds
            /\ ~PurposeOk(Loads(data), ExpectedPurpose(op))}

InvalidTargetIssues(path) ==
    IssuesThat(LAMBDA x : x.type = "INVALID_TARGET_TYPE" /\ x.file_path = path)

\* C5: when an operation targets a document whose purpose is not the one
\* it expects, the result holds exactly one InvalidTargetType issue for that
\* file, of severity error, and the file's bytes in an output archive are its
\* input bytes.
C5_PurposeGuard ==
    (op \in EditOps /\ ArchiveLoaded /\ TablesLoaded) =>
        \A k \in WrongPurposeTargets :
            LET path == JsonFilesIn[k]
            IN  /\ Cardinality(InvalidTargetIssues(path)) = 1
                /\ \A x \in InvalidTargetIssues(path) : result.issues[x].severity = "error"
                /\ Attached =>
                      \A i \in DOMAIN OutFiles :
                          OutFiles[i].name = path => OutFiles[i].data = BlobIn[path]

\* the column of an expire operation that names the entry
ItemColumn(o) == IF o = ExpireOfferOp THEN "offer_id" ELSE "service_id"

\* the ids the call asks to append to the document data, and those it asks
\* to expire in it
AddIdsFor(data) ==
    LET rows == ValidOf(args.table, op)
        adds == ValidOf(args.add_table, op)
    IN  CASE op = AddOp ->
               {rows[k].service_id : k \in {k \in DOMAIN rows : rows[k].addons_id = CarriedId(data)}}
          [] op = AddOfferOp -> {_normalize_id(args.offer_id)}
          [] op = CombinedOp -> {adds[k].service_id : k \in DOMAIN adds}
          [] OTHER -> {}

ExpireIdsFor(data) ==
    LET rows == ValidOf(args.table, op)
    IN  CASE op \in {ExpireOp, ExpireOfferOp} ->
               {rows[k][ItemColumn(op)] : k \in {k \in DOMAIN rows : rows[k].json_id = CarriedId(data)}}
          [] op = CombinedOp -> {rows[k].service_id : k \in DOMAIN rows}
          [] OTHER -> {}

\* the operation edits the document data
Edits(data) ==
    /\ Loads(data).t = "obj"
    /\ CarriedId(data) # <<>>
    /\ op = CombinedOp \/ CarriedId(data) \in TargetedIds
    /\ PurposeOk(Loads(data), ExpectedPurpose(op))

\* the edit changes the document in memory: it appends an entry that is not
\* there or it flips the flag of an entry that is not expired
ChangesInMemory(data) ==
    LET offerings == Loads(data).productOfferingsInGroup
    IN  /\ Edits(data)
        /\ \/ \E a \in AddIdsFor(data) : a \notin ExistingIds(offerings)
           \/ \E e \in ExpireIdsFor(data) :
                 IF op = CombinedOp
                 THEN \E i \in DOMAIN offerings :
                         _normalize_id(offerings[i].id) = e /\ ~offerings[i].expiredForSales
                 ELSE IndexById(offerings, e) # 0
                      /\ ~offerings[IndexById(offerings, e)].expiredForSales

\* C6: a document is written anew into the output iff the operation changed
\* it in memory; a targeted document whose rows change nothing keeps its input
\* bytes; counts.files_processed is the number of documents written anew.
C6_RewrittenIffChanged ==
    (op \in EditOps /\ ArchiveLoaded /\ TablesLoaded) =>
        /\ \A k \in DOMAIN JsonFilesIn :
              LET path == JsonFilesIn[k]
              IN  IF ChangesInMemory(BlobIn[path])
                  THEN /\ Attached
                       /\ BlobOut[path] = _json_dumps_stable(Loads(BlobOut[path]))
                       /\ Loads(BlobOut[path]) # Loads(BlobIn[path])
                  ELSE Attached => BlobOut[path] = BlobIn[path]
        /\ "files_processed" \in DOMAIN result.counts =>
              result.counts.files_processed =
                  Cardinality({k \in DOMAIN JsonFilesIn : ChangesInMemory(BlobIn[JsonFilesIn[k]])})

\* C7: an archive-editing operation whose table and archive load attaches
\* an output archive iff at least one document changed; when none changed the
\* result is ok = true with the "no changes" message and no archive.
C7_ArchiveIffChanged ==
    (op \in EditOps /\ ArchiveLoaded /\ TablesLoaded) =>
        LET changed == \E k \in DOMAIN JsonFilesIn : ChangesInMemory(BlobIn[JsonFilesIn[k]])
        IN  /\ Attached <=> changed
            /\ Attached => \E n \in DOMAIN BlobIn : Loads(BlobOut[n]) # Loads(BlobIn[n])
            /\ ~changed => result.ok /\ result.msg = "no changes"

\* a parseable document under productOfferingGroup/ carries the id
Carried(id) ==
    \E i \in DOMAIN InFiles :
        /\ InFiles[i].name.dir = POG_DIR /\ InFiles[i].name.ext = "json"
        /\ _load_json_ok(InFiles[i].data)
        /\ CarriedId(InFiles[i].data) = id

NotFoundJsonIdIssues(id) ==
    IssuesThat(LAMBDA x : x.type = "NOT_FOUND_JSON_ID" /\ x.json_id = id)

\* C8: in the targeted operations the result holds exactly one
\* NotFoundJsonId error for each distinct targeted document id that no
\* parseable document under productOfferingGroup/ carries, and none for an id
\* that some document carries, a document of the wrong purpose included.
C8_NotFoundJsonId ==
    (op \in TargetedOps /\ ArchiveLoaded /\ TablesLoaded) =>
        \A id \in TargetedIds :
            IF Carried(id)
            THEN NotFoundJsonIdIssues(id) = {}
            ELSE /\ Cardinality(NotFoundJsonIdIssues(id)) = 1
                 /\ \A x \in NotFoundJsonIdIssues(id) : result.issues[x].severity = "error"

\* C9: when no document of the archive has the id a row of the expire table
\* targets, whatever else the archive holds (no JSON entry under
\* productOfferingGroup/ at all included), expire entries returns
\* files_processed = 0, exactly one NotFoundJsonId error for each such id, no
\* archive and the "no changes" message.
C9_ExpireTargetAbsent ==
    (op = ExpireOp /\ ArchiveLoaded /\ TablesLoaded) =>
        LET absent == {id \in TargetedIds : ~Carried(id)}
        IN  absent # {} =>
                /\ HasCount("files_processed", 0)
                /\ \A id \in absent : Cardinality(NotFoundJsonIdIssues(id)) = 1
                /\ ~Attached
                /\ result.msg = "no changes"

\* the operation o on the inputs a
RunOf(o, a) ==
    CASE o = "generate_addon_from_excel" -> generate_addon_from_excel(a.table)
      [] o = AddOp -> add_services_to_existing_pogs(a.zip, a.table)
      [] o = ExpireOp -> expire_services_in_pogs(a.zip, a.table)
      [] o = CombinedOp ->
            expire_and_add_services(a.zip, a.table, a.add_table, a.order, a.not_found_order)
      [] o = "create_replace_offer_from_excel" ->
            create_replace_offer_from_excel(a.table, a.json_name, a.json_id)
      [] o = AddOfferOp -> add_offer_to_transitions(a.zip, a.table, a.offer_id, a.order)
      [] o = ExpireOfferOp -> expire_offer_in_transitions(a.zip, a.table)
      [] OTHER -> generate_categories_from_excel(a.table)

\* the tables the operation takes
TablesOf(o) == IF o = CombinedOp THEN {"table", "add_table"} ELSE {"table"}

\* a required id of the row is blank once normalized
BlankRow(row, o) == \E c \in Range(RequiredIds(o)) : _normalize_str(row[c]) = <<>>

\* the table without its rows with a blank required id
WithoutBlankRows(t, o) ==
    IF _read_table_ok(t) THEN [t EXCEPT !.rows = Filter(LAMBDA row : ~BlankRow(row, o), @)]
    ELSE t

\* the message of the EmptyId warning about column c of table w
EmptyIdMessage(o, w, c) ==
    IF o # CombinedOp THEN c
    ELSE IF w = "table" THEN "service_id for expire" ELSE "service_id for add"

\* the EmptyId warnings of the result about column c of row i of table w
EmptyIdWarnings(w, i, c) ==
    IssuesThat(LAMBDA x : /\ x.type = "EMPTY_ID" /\ x.severity = "warning"
                          /\ x.row_number = i + 1
                          /\ x.message = EmptyIdMessage(op, w, c))

\* the counts that count the rows with a blank required id
RowCounts == {"total_rows", "expire_total_rows", "add_total_rows", "skipped_rows"}

\* a result but for its EmptyId warnings and its counts of the blank rows
BesidesBlankRows(r) ==
    [r EXCEPT !.issues = Filter(LAMBDA x : ~(x.type = "EMPTY_ID" /\ x.severity = "warning"), @),
              !.counts = [k \in DOMAIN @ \ RowCounts |-> @[k]]]

\* the rows with a blank required id take no part in the result
BlankRowsExcluded ==
    BesidesBlankRows(result) =
        BesidesBlankRows(RunOf(op, [args EXCEPT
                                       !.table = WithoutBlankRows(@, op),
                                       !.add_table = WithoutBlankRows(@, op)]))

\* every blank required id of every row of table w has its one EmptyId
\* warning, and no other cell has one
OneWarningPerBlank(w) ==
    \A i \in DOMAIN args[w].rows :
        \A c \in Range(RequiredIds(op)) :
            Cardinality(EmptyIdWarnings(w, i, c)) =
                IF _normalize_str(args[w].rows[i][c]) = <<>> THEN 1 ELSE 0

\* the operation got as far as reading table w: an archive-editing operation
\* reads the archive first and returns when it holds no JSON entry under
\* productOfferingGroup/, and the combined operation reads its add table after
\* its expire table
ReadsTable(w) ==
    /\ _read_table_ok(args[w])
    /\ op \in EditOps => ArchiveLoaded /\ JsonFilesIn # <<>>
    /\ w = "add_table" => _read_table_ok(args.table)

ColumnAbsent(w) == args[w].fmt # "bad" /\ ~_read_table_ok(args[w])

\* C11: when a required column is absent from the table, the operation
\* fails as a whole (ok = false, no archive) and the issues of the result hold
\* the MissingField error that _read_table made, which names the missing
\* columns and lists the columns present.
C11_MissingField ==
    op # "init" =>
        \A w \in TablesOf(op) :
            ColumnAbsent(w) =>
                /\ ~result.ok
                /\ ~Attached
                /\ \E x \in DOMAIN result.issues :
                      /\ result.issues[x].type = "MISSING_FIELD"
                      /\ result.issues[x].severity = "error"
                      /\ result.issues[x] \in Range(_read_table_raise_issues(args[w]))

\* the fatal conditions, as the operation meets them: it cannot open the
\* archive; it gets as far as a table and cannot read it; an entry makes its
\* file loop raise (a parseable value that is no object and not falsy, or an
\* edited entry list with an item without id, which sorted() cannot key)
ArchiveUnreadable == op \in EditOps /\ ~ArchiveLoaded

TableUnreadable ==
    \E w \in TablesOf(op) :
        /\ ~_read_table_ok(args[w])
        /\ op \in EditOps => ArchiveLoaded /\ JsonFilesIn # <<>>
        /\ w = "add_table" => _read_table_ok(args.table)

Raises(data) ==
    /\ _load_json_ok(data)
    /\ \/ Loads(data).t = "arr"
       \/ ChangesInMemory(data) /\ SortRaises(Loads(data).productOfferingsInGroup)

ProcessingError ==
    /\ op \in EditOps /\ ArchiveLoaded /\ TablesLoaded
    /\ \E k \in DOMAIN JsonFilesIn : Raises(BlobIn[JsonFilesIn[k]])

Fatal == ArchiveUnreadable \/ TableUnreadable \/ ProcessingError

HasError(r) == \E x \in DOMAIN r.issues : r.issues[x].severity = "error"

\* C12: every operation returns a result for every input; on a fatal
\* condition (archive unreadable, table unreadable, an error while
\* processing) the result has ok = false, a non-empty message and at least one
\* issue of severity error.
C12_FatalIsReported ==
    op # "init" =>
        /\ result.ok \in BOOLEAN
        /\ Fatal => ~result.ok /\ result.msg # "" /\ HasError(result)

\* the case of C12: an entry makes the file loop raise after the operation
\* recorded an issue for another entry
C12_Witness ==
    /\ ProcessingError
    /\ Len(result.issues) >= 2
    /\ result.issues[1].type = "INVALID_TARGET_TYPE"

\* a defective entry of the archive: bytes that do not parse, a value that
\* is no object, an object whose entry list holds an item without id
Defective(data) ==
    \/ Loads(data).t \in {"bad", "arr"}
    \/ Loads(data).t = "obj" /\ SortRaises(Loads(data).productOfferingsInGroup)

IssuesOfFile(path) == {x \in DOMAIN result.issues : result.issues[x].file_path = path}

\* C13: a defective JSON entry under productOfferingGroup/ (unparseable, not
\* an object, or with an item without id) never aborts an operation: an issue
\* is recorded for the file, the file is left untouched, every other document
\* the rows change is still rewritten, and the operation returns ok = true.
C13_DefectNeverAborts ==
    (op \in EditOps /\ ArchiveLoaded /\ TablesLoaded) =>
        \A k \in DOMAIN JsonFilesIn :
            LET path == JsonFilesIn[k]
            IN  Defective(BlobIn[path]) =>
                    /\ result.ok
                    /\ IssuesOfFile(path) # {}
                    /\ BlobOut[path] = BlobIn[path]
                    /\ \A j \in DOMAIN JsonFilesIn :
                          (/\ ~Defective(BlobIn[JsonFilesIn[j]])
                           /\ ChangesInMemory(BlobIn[JsonFilesIn[j]]))
                              => Loads(BlobOut[JsonFilesIn[j]]) # Loads(BlobIn[JsonFilesIn[j]])

\* service_map[json_id] for the document data: its valid rows in table order
AddRowsOf(data) == Group(ValidOf(args.table, AddOp), "addons_id", CarriedId(data))

\* offerings, existing, modified and what the row loop of the document at
\* path recorded, after its first k rows
AddState(path, k) ==
    LET data == BlobIn[path]
        offerings == Loads(data).productOfferingsInGroup
    IN  FoldLeft(LAMBDA a, rec: AddServicesRow(a, rec, path, CarriedId(data)),
                 [offerings |-> offerings, existing |-> ExistingIds(offerings),
                  modified |-> FALSE, issues |-> <<>>, skipped |-> <<>>],
                 SubSeq(AddRowsOf(data), 1, k))

\* row k of the document at path finds its entry id in the document
FindsEntry(path, k) ==
    AddRowsOf(BlobIn[path])[k].service_id \in ExistingIds(AddState(path, k - 1).offerings)

\* row k appends its entry and marks the document modified
AppendsEntry(path, k) ==
    LET a == AddState(path, k - 1)
        b == AddState(path, k)
        rec == AddRowsOf(BlobIn[path])[k]
    IN  /\ b.offerings = Append(a.offerings,
              [id |-> rec.service_id, isBundle |-> FALSE, expiredForSales |-> FALSE,
               name |-> IF rec.service_name # <<>> THEN rec.service_name ELSE Missing])
        /\ b.modified
        /\ b.issues = a.issues /\ b.skipped = a.skipped

\* row k leaves the entries alone and records one issue and one skip record
SkipsEntry(path, k) ==
    LET a == AddState(path, k - 1)
        b == AddState(path, k)
        rec == AddRowsOf(BlobIn[path])[k]
    IN  /\ b.offerings = a.offerings /\ b.modified = a.modified
        /\ Len(b.issues) = Len(a.issues) + 1
        /\ SubSeq(b.issues, 1, Len(a.issues)) = a.issues
        /\ b.issues[Len(b.issues)].type = "ALREADY_EXISTS"
        /\ b.issues[Len(b.issues)].severity = "info"
        /\ b.issues[Len(b.issues)].item_id = rec.service_id
        /\ b.issues[Len(b.issues)].file_path = path
        /\ Len(b.skipped) = Len(a.skipped) + 1
        /\ SubSeq(b.skipped, 1, Len(a.skipped)) = a.skipped
        /\ b.skipped[Len(b.skipped)].reason = "already_exists_in_group"
        /\ b.skipped[Len(b.skipped)].item_id = rec.service_id

\* what the row loop of the document at path did is what the operation
\* returns, once it has run to its end
AddStateReturned(path) ==
    LET d == AddState(path, Len(AddRowsOf(BlobIn[path])))
    IN  /\ Range(d.issues) \subseteq Range(result.issues)
        /\ Range(d.skipped) \subseteq Range(result.details.skipped_existing)
        /\ d.modified =>
              /\ Attached
              /\ Loads(BlobOut[path]).productOfferingsInGroup = SortedById(d.offerings)

\* the entries a transition bundle of the output holds and its input did not
NewEntries(path) ==
    {e \in Range(Loads(BlobOut[path]).productOfferingsInGroup) :
        e \notin Range(Loads(BlobIn[path]).productOfferingsInGroup)}

\* C14: add entries, per valid row whose bundle document exists with purpose
\* ["addOn"]: when the entry id is not in the document's entry-id set as the
\* row is processed, a new entry (id, isBundle false, expiredForSales false,
\* name when non-blank) is appended and the document marked modified;
\* otherwise the entry list is left as it is and exactly one AlreadyExists
\* info issue and one skip record with reason already_exists_in_group are
\* recorded.  Entries added to transition bundles carry no name.
C14_AddPerRow ==
    /\ (op = AddOp /\ ArchiveLoaded /\ TablesLoaded) =>
          \A n \in DOMAIN JsonFilesIn :
              LET path == JsonFilesIn[n]
              IN  Edits(BlobIn[path]) =>
                      /\ \A k \in DOMAIN AddRowsOf(BlobIn[path]) :
                            IF FindsEntry(path, k) THEN SkipsEntry(path, k)
                            ELSE AppendsEntry(path, k)
                      /\ result.details.set => AddStateReturned(path)
    /\ (op = AddOfferOp /\ Attached) =>
          \A n \in DOMAIN JsonFilesIn :
              \A e \in NewEntries(JsonFilesIn[n]) :
                  /\ e.name = Missing /\ ~e.isBundle /\ ~e.expiredForSales
                  /\ e.id = _normalize_id(args.offer_id)

\* the case of C14: a run to the end on a document for which one row
\* appended a named entry and the next row named an entry the document held
C14_Witness ==
    /\ op = AddOp /\ Attached
    /\ \E n \in DOMAIN JsonFilesIn :
          LET path == JsonFilesIn[n]
          IN  /\ Edits(BlobIn[path])
              /\ Len(AddRowsOf(BlobIn[path])) = 2
              /\ ~FindsEntry(path, 1) /\ FindsEntry(path, 2)
              /\ AddRowsOf(BlobIn[path])[1].service_name # <<>>

\* the case of C14 on transitions: a bundle gained the offer
C14_WitnessTransition ==
    /\ op = AddOfferOp /\ Attached
    /\ \E n \in DOMAIN JsonFilesIn : NewEntries(JsonFilesIn[n]) # {}

\* expire_map[json_id] for the document data: the entry ids of its valid
\* rows in table order
ExpireRowsOf(data) ==
    LET rows == Group(ValidOf(args.table, op), "json_id", CarriedId(data))
    IN  [k \in DOMAIN rows |-> rows[k][ItemColumn(op)]]

NotFoundType(o) == IF o = ExpireOfferOp THEN "NOT_FOUND_OFFER_ID" ELSE "NOT_FOUND_SERVICE_ID"

\* offerings, modified and what the row loop of the document at path
\* recorded, after its first k rows
ExpireState(path, k) ==
    LET data == BlobIn[path]
    IN  FoldLeft(LAMBDA a, raw: ExpireRow(a, raw, path, CarriedId(data), NotFoundType(op)),
                 [offerings |-> Loads(data).productOfferingsInGroup, existing |-> {},
                  modified |-> FALSE, issues |-> <<>>, skipped |-> <<>>],
                 SubSeq(ExpireRowsOf(data), 1, k))

\* row k records one issue of the type and severity and changes nothing
RecordsOnly(path, k, type, severity) ==
    LET a == ExpireState(path, k - 1)
        b == ExpireState(path, k)
    IN  /\ b.offerings = a.offerings /\ b.modified = a.modified
        /\ Len(b.issues) = Len(a.issues) + 1
        /\ SubSeq(b.issues, 1, Len(a.issues)) = a.issues
        /\ b.issues[Len(b.issues)].type = type
        /\ b.issues[Len(b.issues)].severity = severity
        /\ b.issues[Len(b.issues)].item_id = ExpireRowsOf(BlobIn[path])[k]
        /\ b.issues[Len(b.issues)].file_path = path

\* row k sets the flag of one entry of its id and records nothing
Flips(path, k) ==
    LET a == ExpireState(path, k - 1)
        b == ExpireState(path, k)
    IN  /\ b.issues = a.issues
        /\ b.modified
        /\ \E i \in DOMAIN a.offerings :
              /\ _normalize_id(a.offerings[i].id) = ExpireRowsOf(BlobIn[path])[k]
              /\ ~a.offerings[i].expiredForSales
              /\ b.offerings = [a.offerings EXCEPT ![i].expiredForSales = TRUE]

\* the entries of the id of row k, as the row is processed
EntriesOfRow(path, k) ==
    LET a == ExpireState(path, k - 1)
    IN  {i \in DOMAIN a.offerings :
            _normalize_id(a.offerings[i].id) = ExpireRowsOf(BlobIn[path])[k]}

\* the outcomes of row k among the three
Outcomes(path, k) ==
    {o \in {"not found", "already expired", "expired"} :
        CASE o = "not found" -> RecordsOnly(path, k, NotFoundType(op), "error")
          [] o = "already expired" -> RecordsOnly(path, k, "ALREADY_EXPIRED", "info")
          [] OTHER -> Flips(path, k)}

\* what the row loop of the document at path did is what the operation
\* returns, once it has run to its end
ExpireStateReturned(path) ==
    LET d == ExpireState(path, Len(ExpireRowsOf(BlobIn[path])))
    IN  /\ Range(d.issues) \subseteq Range(result.issues)
        /\ d.modified =>
              /\ Attached
              /\ Loads(BlobOut[path]).productOfferingsInGroup = SortedById(d.offerings)

\* C15: expire entries, per valid (document id, entry id) row whose document
\* exists with the expected purpose, exactly one of three outcomes occurs:
\* the entry is absent and one NotFoundServiceId (service bundles) or
\* NotFoundOfferId (transitions) error is recorded; the entry is present and
\* already expired and one AlreadyExpired info is recorded with no change; or
\* the entry's flag is set to true and the document is marked modified with
\* no issue recorded.
C15_ExpirePerRow ==
    (op \in {ExpireOp, ExpireOfferOp} /\ ArchiveLoaded /\ TablesLoaded) =>
        \A n \in DOMAIN JsonFilesIn :
            LET path == JsonFilesIn[n]
            IN  Edits(BlobIn[path]) =>
                    /\ \A k \in DOMAIN ExpireRowsOf(BlobIn[path]) :
                          /\ Cardinality(Outcomes(path, k)) = 1
                          /\ "not found" \in Outcomes(path, k) <=> EntriesOfRow(path, k) = {}
                          /\ "already expired" \in Outcomes(path, k) =>
                                \E i \in EntriesOfRow(path, k) :
                                    ExpireState(path, k - 1).offerings[i].expiredForSales
                    /\ result.msg \in {"done", "no changes"} => ExpireStateReturned(path)

\* the case of C15: a run to the end on a document in which one row found
\* no entry and another row flipped the flag of its entry
C15_Witness ==
    /\ op \in {ExpireOp, ExpireOfferOp} /\ Attached
    /\ \E n \in DOMAIN JsonFilesIn :
          LET path == JsonFilesIn[n]
          IN  /\ Edits(BlobIn[path])
              /\ \E j, k \in DOMAIN ExpireRowsOf(BlobIn[path]) :
                    /\ Outcomes(path, j) = {"not found"}
                    /\ Outcomes(path, k) = {"expired"}

AddonOp == "generate_addon_from_excel"

\* the (display name, bundle id) groups of the valid rows, the rows of a
\* group and its distinct service ids
AddonGroups ==
    LET rows == ValidOf(args.table, AddonOp)
    IN  {<<rows[i].addons_name, rows[i].addons_id>> : i \in DOMAIN rows}

AddonRowsOf(g) ==
    LET rows == ValidOf(args.table, AddonOp)
    IN  {i \in DOMAIN rows : rows[i].addons_name = g[1] /\ rows[i].addons_id = g[2]}

ServiceIdsOf(g) == {ValidOf(args.table, AddonOp)[i].service_id : i \in AddonRowsOf(g)}

RemovedFrom(g) == Cardinality(AddonRowsOf(g)) - Cardinality(ServiceIdsOf(g))

\* the entries of the output that hold the bundle of group g
DocsOfGroup(g) ==
    {i \in DOMAIN OutFiles :
        /\ Loads(OutFiles[i].data).id = g[2]
        /\ Loads(OutFiles[i].data).rest[1] = g[1]
        /\ Loads(OutFiles[i].data).purpose = "addOn"}

\* the number of entries written in all the documents of the output
EntriesWritten ==
    FoldLeft(LAMBDA acc, f: acc + Len(Loads(f.data).productOfferingsInGroup), 0, OutFiles)

DuplicateIssues == {x \in DOMAIN result.issues : result.issues[x].type = "DUPLICATE_IN_SOURCE"}

\* C16: create service bundles, for every table with at least one valid row:
\* the result holds one document per (display name, bundle id) group, each
\* with exactly one entry per distinct service id of the group; one
\* DuplicateInSource info issue per group from which duplicates were removed,
\* stating how many; counts.created_jsons is the number of documents written
\* and counts.services_total the number of entries written.
C16_CreateBundles ==
    (op = AddonOp /\ _read_table_ok(args.table) /\ ValidOf(args.table, AddonOp) # <<>>) =>
        /\ Attached
        /\ Len(OutFiles) = Cardinality(AddonGroups)
        /\ \A g \in AddonGroups :
              /\ Cardinality(DocsOfGroup(g)) = 1
              /\ \A i \in DocsOfGroup(g) :
                    LET offerings == Loads(OutFiles[i].data).productOfferingsInGroup
                    IN  /\ Len(offerings) = Cardinality(ServiceIdsOf(g))
                        /\ {offerings[k].id : k \in DOMAIN offerings} = ServiceIdsOf(g)
              /\ RemovedFrom(g) > 0 =>
                    \E x \in DuplicateIssues :
                        /\ result.issues[x].severity = "info"
                        /\ result.issues[x].json_id = g[2]
                        /\ result.issues[x].n = RemovedFrom(g)
        /\ Cardinality(DuplicateIssues) = Cardinality({g \in AddonGroups : RemovedFrom(g) > 0})
        /\ HasCount("created_jsons", Len(OutFiles))
        /\ HasCount("services_total", EntriesWritten)

\* the case of C16: a table whose group lost a duplicate row
C16_Witness ==
    /\ op = AddonOp /\ Attached
    /\ \E g \in AddonGroups : RemovedFrom(g) = 1
    /\ DuplicateIssues # {}

\* the case of C16 with two groups of one bundle id
C16_WitnessTwoGroups ==
    /\ op = AddonOp /\ Attached
    /\ \E g, h \in AddonGroups : g # h /\ g[2] = h[2]

CategoriesOp == "generate_categories_from_excel"

\* the offer ids with a row whose category id is not blank (a row with a
\* blank offer id names no offer), and the category ids of an offer
OffersWithCategory ==
    {ValidOf(args.table, CategoriesOp)[i].offer_id : i \in DOMAIN ValidOf(args.table, CategoriesOp)}

CategoriesOf(offer_id) ==
    LET rows == ValidOf(args.table, CategoriesOp)
    IN  {_normalize_id(rows[i].category_id) : i \in {i \in DOMAIN rows : rows[i].offer_id = offer_id}}

\* the entries of the output named after the offer
DocsOfOffer(offer_id) ==
    {i \in DOMAIN OutFiles : OutFiles[i].name = Name(POC_DIR, _safe_name(offer_id), "json")}

IsSortedStrings(q) ==
    \A i, j \in DOMAIN q : i < j => StrLess(q[i], q[j])

\* C17: generate categories: for every offer id with a row whose category
\* id is non-blank exactly one document
\* productOfferingCategory/<safeName(offer id)>.json is produced; its category
\* list is the set of the offer's normalized category ids, without
\* duplicates and ascending; categoryRef has the same ids in the same order;
\* no produced document has an empty category list.
C17_Categories ==
    (op = CategoriesOp /\ _read_table_ok(args.table)) =>
        /\ \A offer_id \in OffersWithCategory :
              /\ Attached
              /\ Cardinality(DocsOfOffer(offer_id)) = 1
              /\ \A i \in DocsOfOffer(offer_id) :
                    LET doc == Loads(OutFiles[i].data)
                    IN  /\ Range(doc.category) = CategoriesOf(offer_id)
                        /\ IsSortedStrings(doc.category)
                        /\ doc.categoryRef = doc.category
        /\ Attached =>
              \A i \in DOMAIN OutFiles :
                  Loads(OutFiles[i].data).category # <<>>

\* the rows of the document at path that appended an entry, and those
\* that were skipped because the entry was there
RowsAppended(path) == {k \in DOMAIN AddRowsOf(BlobIn[path]) : ~FindsEntry(path, k)}
RowsSkipped(path) == {k \in DOMAIN AddRowsOf(BlobIn[path]) : FindsEntry(path, k)}

\* the sum over the documents the add operation edits, in archive order
SumOverEdited(n, rows) ==
    IF Edits(BlobIn[JsonFilesIn[n]]) THEN Cardinality(rows) ELSE 0

EntriesAppended ==
    FoldLeft(LAMBDA acc, n: acc + SumOverEdited(n, RowsAppended(JsonFilesIn[n])),
             0, [n \in DOMAIN JsonFilesIn |-> n])

RowsSkippedExisting ==
    FoldLeft(LAMBDA acc, n: acc + SumOverEdited(n, RowsSkipped(JsonFilesIn[n])),
             0, [n \in DOMAIN JsonFilesIn |-> n])

\* C18: in add entries to existing bundles, counts.added is the number of
\* entries appended to documents during the call and counts.skipped_existing
\* the number of rows skipped because the entry was already present.
C18_AddCounts ==
    (op = AddOp /\ "added" \in DOMAIN result.counts) =>
        /\ result.counts.added = EntriesAppended
        /\ result.counts.skipped_existing = RowsSkippedExisting

\* the number of flags the rows of the expire operation set to true, over
\* the documents it edits in archive order
EntriesExpired ==
    FoldLeft(LAMBDA acc, n:
                acc + SumOverEdited(n, {k \in DOMAIN ExpireRowsOf(BlobIn[JsonFilesIn[n]]) :
                                           Outcomes(JsonFilesIn[n], k) = {"expired"}}),
             0, [n \in DOMAIN JsonFilesIn |-> n])

\* C19: in expire entries (service bundles and transitions) counts.expired
\* is the number of entries whose expiredForSales flag the call changed from
\* false to true.
C19_ExpireCount ==
    (op \in {ExpireOp, ExpireOfferOp} /\ "expired" \in DOMAIN result.counts) =>
        result.counts.expired = EntriesExpired

\* the results the call of the state can return: one for every order in
\* which its sets of ids can be iterated
Results ==
    CASE op = CombinedOp ->
           {expire_and_add_services(args.zip, args.table, args.add_table, o1, o2) :
               o1 \in Orders(Overlap(args.table, args.add_table)),
               o2 \in Orders(NotFoundSet(args.zip, args.table))}
      [] op = AddOfferOp ->
           {add_offer_to_transitions(args.zip, args.table, args.offer_id, o) :
               o \in Orders(Range(args.order))}
      [] OTHER -> {result}

\* C20: two invocations of an operation on the same inputs produce the same
\* result: the same rewritten documents, counts and issues with the same
\* messages in the same order, the overlap warning of the combined operation
\* (its first 5 ids) and its not-found issues included.
C20_Deterministic ==
    op # "init" => Results = {result}

\* the ids the expire table of the combined operation asks to expire
RequestedExpireIds ==
    ServiceIds(ValidOf(args.table, CombinedOp))

\* the archive after the call: the one returned, or the input when the
\* call returned none
BlobAfter == IF Attached THEN BlobOut ELSE BlobIn

\* the entry ids the documents hold after the call
ObservedAfter ==
    UNION {IF Loads(BlobAfter[JsonFilesIn[k]]).t = "obj"
           THEN ExistingIds(Loads(BlobAfter[JsonFilesIn[k]]).productOfferingsInGroup)
           ELSE {} : k \in DOMAIN JsonFilesIn}

NotFoundAfter == RequestedExpireIds \ ObservedAfter

NotFoundServiceIssues(sid) ==
    {x \in DOMAIN result.issues :
        /\ result.issues[x].type = "NOT_FOUND_SERVICE_ID"
        /\ result.issues[x].item_id = sid}

NotFoundDetails(sid) ==
    {x \in DOMAIN result.details.skipped_expire_not_found :
        result.details.skipped_expire_not_found[x].item_id = sid}

\* C21: combined expire+add: a NotFoundServiceId info issue and a
\* skipped_expire_not_found detail are recorded for exactly the requested
\* expire ids that no document's entry list holds after processing (an id the
\* add table of the same call appended counts as found), and
\* counts.skipped_expire_not_found is the number of such ids.
C21_NotFoundAfterProcessing ==
    (op = CombinedOp /\ ArchiveLoaded /\ TablesLoaded) =>
        /\ \A sid \in RequestedExpireIds :
              IF sid \in NotFoundAfter
              THEN /\ Cardinality(NotFoundServiceIssues(sid)) = 1
                   /\ \A x \in NotFoundServiceIssues(sid) : result.issues[x].severity = "info"
                   /\ Cardinality(NotFoundDetails(sid)) = 1
              ELSE NotFoundServiceIssues(sid) = {} /\ NotFoundDetails(sid) = {}
        /\ HasCount("skipped_expire_not_found", Cardinality(NotFoundAfter))

\* the ids both tables of the combined operation list
OverlapIds == Overlap(args.table, args.add_table)

OverlapWarnings ==
    {x \in DOMAIN result.issues :
        /\ result.issues[x].type = "DUPLICATE_IN_SOURCE"
        /\ result.issues[x].severity = "warning"
        /\ Range(result.issues[x].listed) \subseteq OverlapIds
        /\ result.issues[x].n = Cardinality(OverlapIds)}

\* the entries of id sid in the document at path, before and after the call
EntriesIn(path, sid) ==
    {e \in Range(Loads(BlobIn[path]).productOfferingsInGroup) : _normalize_id(e.id) = sid}

EntriesAfter(path, sid) ==
    {e \in Range(Loads(BlobAfter[path]).productOfferingsInGroup) : _normalize_id(e.id) = sid}

AlreadyExistsIssues(path, sid) ==
    {x \in DOMAIN result.issues :
        /\ result.issues[x].type = "ALREADY_EXISTS"
        /\ result.issues[x].file_path = path
        /\ result.issues[x].item_id = sid}

\* C22: combined expire+add, inside one document expire is applied to the
\* entry list as it stood before the add step, then the add step runs: an
\* id of both tables that the document lacks is appended with
\* expiredForSales = false; one that the document holds is expired and then
\* reported AlreadyExists; in both cases one DuplicateInSource warning about
\* the overlap is recorded and the operation still completes.
C22_ExpireThenAdd ==
    (op = CombinedOp /\ ArchiveLoaded /\ TablesLoaded /\ OverlapIds # {}) =>
        \A n \in DOMAIN JsonFilesIn :
            LET path == JsonFilesIn[n]
            IN  Edits(BlobIn[path]) =>
                    /\ Cardinality(OverlapWarnings) = 1
                    /\ ~Fatal =>
                          /\ result.ok
                          /\ \A sid \in OverlapIds :
                                IF EntriesIn(path, sid) = {}
                                THEN /\ Cardinality(EntriesAfter(path, sid)) = 1
                                     /\ \A e \in EntriesAfter(path, sid) : ~e.expiredForSales
                                ELSE /\ \A e \in EntriesAfter(path, sid) : e.expiredForSales
                                     /\ Cardinality(EntriesAfter(path, sid))
                                            = Cardinality(EntriesIn(path, sid))
                                     /\ AlreadyExistsIssues(path, sid) # {}

\* the case of C22: a completed call with one id of both tables that a
\* document lacked and another that it held unexpired
C22_Witness ==
    /\ op = CombinedOp /\ Attached /\ ~Fatal
    /\ \E n \in DOMAIN JsonFilesIn :
          LET path == JsonFilesIn[n]
          IN  /\ Edits(BlobIn[path])
              /\ \E a, b \in OverlapIds :
                    /\ EntriesIn(path, a) = {}
                    /\ \E e \in EntriesIn(path, b) : ~e.expiredForSales

\* the results of running the combined operation again, with the same two
\* tables, on the archive it returned
CombinedAgain ==
    {expire_and_add_services(result.zip_data, args.table, args.add_table, o1, o2) :
        o1 \in Orders(OverlapIds),
        o2 \in Orders(NotFoundSet(result.zip_data, args.table))}

\* C23: the combined expire+add operation run again with the same two
\* tables on the archive the first run returned changes no document
\* (files_processed = 0, services_expired = 0, services_added = 0, no
\* archive), for all tables, those whose id sets intersect included.
C23_CombinedIdempotent ==
    (op = CombinedOp /\ Attached) =>
        \A again \in CombinedAgain :
            /\ "files_processed" \in DOMAIN again.counts
            /\ again.counts.files_processed = 0
            /\ again.counts.services_expired = 0
            /\ again.counts.services_added = 0
            /\ again.zip_data = NoZip

\* the first run set the flag of the entry the row names
ExpiredByRun(row) ==
    \E n \in DOMAIN BlobOut :
        /\ CarriedId(BlobOut[n]) = row.json_id
        /\ \E e \in Range(Loads(BlobOut[n]).productOfferingsInGroup) :
              /\ _normalize_id(e.id) = row[ItemColumn(op)]
              /\ e.expiredForSales
              /\ [e EXCEPT !.expiredForSales = FALSE]
                    \in Range(Loads(BlobIn[n]).productOfferingsInGroup)

\* C24: expire entries (service bundles and transitions) run again with the
\* same table on the archive the first run returned changes no document
\* (files_processed = 0, no archive, "no changes") and records an
\* AlreadyExpired info issue for every row whose entry the first run expired.
C24_ExpireIdempotent ==
    (op \in {ExpireOp, ExpireOfferOp} /\ Attached) =>
        LET again == IF op = ExpireOp
                     THEN expire_services_in_pogs(result.zip_data, args.table)
                     ELSE expire_offer_in_transitions(result.zip_data, args.table)
            rows == ValidOf(args.table, op)
        IN  /\ "files_processed" \in DOMAIN again.counts
            /\ again.counts.files_processed = 0
            /\ again.zip_data = NoZip
            /\ again.msg = "no changes"
            /\ \A k \in DOMAIN rows :
                  ExpiredByRun(rows[k]) =>
                      \E x \in DOMAIN again.issues :
                          /\ again.issues[x].type = "ALREADY_EXPIRED"
                          /\ again.issues[x].severity = "info"
                          /\ again.issues[x].json_id = rows[k].json_id
                          /\ again.issues[x].item_id = rows[k][ItemColumn(op)]

\* the case of C24: a first run that expired the entry of a row
C24_Witness ==
    /\ op \in {ExpireOp, ExpireOfferOp} /\ Attached
    /\ \E k \in DOMAIN ValidOf(args.table, op) : ExpiredByRun(ValidOf(args.table, op)[k])

\* the three parsers in the order _read_table tries them
Attempts == <<"excel", "comma", "semicolon">>

\* the attempt returns a table: read_excel for a spreadsheet, read_csv with
\* either separator for any text
ParsesWith(t, a) ==
    IF a = "excel" THEN t.fmt = "xlsx" ELSE t.fmt \in {"csv", "ssv"}

\* the attempt returns a table of one column, the lines unsplit: the text
\* holds the other separator
Degenerate(t, a) ==
    \/ a = "comma" /\ t.fmt = "ssv"
    \/ a = "semicolon" /\ t.fmt = "csv"

\* the first attempt that parses and is not degenerate, 0 when none is
FirstGood(t) ==
    LET good == {i \in DOMAIN Attempts : ParsesWith(t, Attempts[i]) /\ ~Degenerate(t, Attempts[i])}
    IN  IF good = {} THEN 0 ELSE CHOOSE i \in good : \A j \in good : i <= j

\* the operation gets as far as reading table w
GetsTo(w) ==
    /\ op \in EditOps => ArchiveLoaded /\ JsonFilesIn # <<>>
    /\ w = "add_table" => _read_table_ok(args.table)

\* C25: the table loader tries spreadsheet, comma-separated and
\* semicolon-separated text in order and accepts the first attempt that parses
\* without raising and is not degenerate, so that a semicolon-separated file
\* holding every required column loads; loading fails only if no attempt
\* succeeds.
C25_LoaderAttempts ==
    op # "init" =>
        \A w \in TablesOf(op) :
            GetsTo(w) =>
                /\ (FirstGood(args[w]) # 0 /\ args[w].cols) =>
                      /\ _read_table_ok(args[w])
                      /\ result.msg = "error" => Fatal
                /\ FirstGood(args[w]) = 0 => ~_read_table_ok(args[w]) /\ ~result.ok

\* an entry the operation looks at is not parseable JSON
UnparseableEntry ==
    /\ op \in EditOps /\ ArchiveLoaded
    /\ \E k \in DOMAIN JsonFilesIn : ~_load_json_ok(BlobIn[JsonFilesIn[k]])

\* a table the operation gets to is accepted by none of the parsers
TableNotOpened ==
    \E w \in TablesOf(op) :
        GetsTo(w) /\ \A i \in DOMAIN Attempts : ~ParsesWith(args[w], Attempts[i])

InvalidJsonIssues == {x \in DOMAIN result.issues : result.issues[x].type = "INVALID_JSON"}

\* C26: an InvalidJson issue appears only when an archive entry is not
\* parseable JSON or the input table or the archive could not be opened, and it
\* always has severity error; in particular an operation that loads a
\* well-formed comma-separated table records no InvalidJson issue for it.
C26_InvalidJsonOnly ==
    op # "init" =>
        \A x \in InvalidJsonIssues :
            /\ result.issues[x].severity = "error"
            /\ UnparseableEntry \/ ArchiveUnreadable \/ TableNotOpened

DistinctNames(files) ==
    \A i, j \in DOMAIN files : i # j => files[i].name # files[j].name

\* C27: the archive that create service bundles or generate categories
\* returns holds exactly counts.created_jsons entries, their names pairwise
\* distinct, one per document built, whatever the table: one bundle id under
\* two display names and two ids with the same safe name included.
C27_FreshArchive ==
    (op \in {AddonOp, CategoriesOp} /\ Attached) =>
        /\ HasCount("created_jsons", Len(OutFiles))
        /\ DistinctNames(OutFiles)

ServiceOps == {AddOp, ExpireOp, CombinedOp}

FileNames(files) == {files[i].name : i \in DOMAIN files}

\* the entries of the document the bytes hold, none if they hold no object
EntriesOf(data) ==
    IF Loads(data).t = "obj" THEN Loads(data).productOfferingsInGroup ELSE <<>>

EntryIds(data) == {EntriesOf(data)[i].id : i \in DOMAIN EntriesOf(data)}

ExpiredWithId(data, id) ==
    {i \in DOMAIN EntriesOf(data) :
        EntriesOf(data)[i].id = id /\ EntriesOf(data)[i].expiredForSales}

CountOf(entries, e) == Cardinality({i \in DOMAIN entries : entries[i] = e})

Unflagged(entries) ==
    [i \in DOMAIN entries |-> [entries[i] EXCEPT !.expiredForSales = FALSE]]

\* the names of the documents the operation rewrote
RewrittenNames == {n \in FileNames(InFiles) : BlobOut[n] # BlobIn[n]}

\* C29: when add, expire or the combined operation rewrites a document,
\* every top-level field other than productOfferingsInGroup keeps its input
\* value and every entry the document had keeps all its fields other than
\* expiredForSales; an add operation changes the expiredForSales of no entry
\* the document had, and an expire operation appends no entry.
C29_RewritePreserves ==
    (op \in EditOps /\ Attached) =>
        \A n \in RewrittenNames :
            LET a == Loads(BlobIn[n])
                b == Loads(BlobOut[n])
                old == a.productOfferingsInGroup
                new == b.productOfferingsInGroup
            IN  /\ a.t = "obj" /\ b.t = "obj"
                /\ [b EXCEPT !.productOfferingsInGroup = old] = a
                /\ \A i \in DOMAIN old :
                      CountOf(Unflagged(old), Unflagged(old)[i])
                          <= CountOf(Unflagged(new), Unflagged(old)[i])
                /\ op \in {AddOp, AddOfferOp} =>
                      \A i \in DOMAIN old : CountOf(old, old[i]) <= CountOf(new, old[i])
                /\ op \in {ExpireOp, ExpireOfferOp} => Len(new) = Len(old)

\* the case of C29: an add operation rewrote a document that held an expired
\* bundle entry and an entry without a name
C29_Witness ==
    /\ op = AddOp /\ Attached
    /\ \E n \in RewrittenNames :
          /\ Len(Loads(BlobOut[n]).productOfferingsInGroup)
                > Len(Loads(BlobIn[n]).productOfferingsInGroup)
          /\ \E e \in Range(Loads(BlobIn[n]).productOfferingsInGroup) :
                e.expiredForSales /\ e.isBundle /\ e.name = Missing

\* C30: no partially applied archive is ever returned: an archive is
\* attached only if ok = true and the operation ran over all documents to
\* completion; if an error interrupts the run after some documents were updated
\* in memory, the result has ok = false and no archive.
C30_NoPartialArchive ==
    op # "init" =>
        /\ Attached => result.ok /\ ~Fatal
        /\ ProcessingError => ~result.ok /\ ~Attached

\* the case of C30: a document was updated in memory and a later one made
\* the loop raise
C30_Witness ==
    /\ op \in EditOps /\ ProcessingError
    /\ \E j, k \in DOMAIN JsonFilesIn :
          /\ j < k
          /\ ChangesInMemory(BlobIn[JsonFilesIn[j]])
          /\ ~Raises(BlobIn[JsonFilesIn[j]])
          /\ Raises(BlobIn[JsonFilesIn[k]])

====
